---- MODULE Spec2Model ----
(***************************************************************************)
(* Cash-Account-Manager: the transaction table, the balance recomputation  *)
(* procedures fn_transaction_..., and the route handlers that maintain the  *)
(* balance column incrementally.                                           *)
(*                                                                         *)
(* A transaction row is modelled by the columns that decide its balance:   *)
(*   id, account_id, amount, transaction_date_time, balance.               *)
(* Amounts and balances are integers (the store's numeric type is exact).  *)
(***************************************************************************)
EXTENDS Integers, Sequences, FiniteSets, TLC

VARIABLES
    tx,       \* the committed rows of table "transaction" (a set of records)
    nextId,   \* last value handed out by the id sequence of the table
    res,      \* the answer of the last call (what the caller was given)
    runs,     \* calls of fn_transaction_recompute made in a row for one account
              \* with no other call in between (counted up to MaxRuns)
    calls,    \* requests started so far (counted where a run is bounded by MaxCalls)
    sess,     \* per store session: the procedure call in flight, its uncommitted
              \* row versions and deletions, and its recompute's running sums
    account,        \* the rows of table "account"
    nextAccountId,  \* last value handed out by the id sequence of "account"
    member,         \* the rows of table "account-member"
    req,      \* the last HTTP request a route handler answered, with the number of
              \* store statements and procedure calls the handler made for it
    hist      \* who the membership check of the transaction routes has admitted
              \* and refused so far (a history of the run, read by no handler)

\* the state of the route layer
routeVars == <<account, nextAccountId, member, req, hist>>
routeVarsButReq == <<account, nextAccountId, member, hist>>

vars == <<tx, nextId, res, runs, calls, sess, routeVars>>

(***************************************************************************)
(* Bounds of the model and input domains                                   *)
(***************************************************************************)
MaxTx == 3                      \* ids the sequence may hand out
TxIds == 1..MaxTx
MaxRuns == 2                    \* cap of the counter of consecutive recomputes
MaxCalls == 4                   \* requests started in one run of the incremental
                                \* handlers, or of the two concurrent sessions
\* inputs of the two-account runs
Accounts == {1, 2}
Amounts == {-30, 50}
Times == {1, 2}
\* inputs of the single-ledger runs (the amounts and three instants of the
\* backdating example: T1 = 100 at t1, T2 = -30 at t2, T0 = 50 at t0 < t1)
LedgerAccounts == {1}
LedgerAmounts == {-30, 50, 100}
LedgerTimes == {1, 2, 3}

NULL == <<>>                    \* SQL null / JS null; a value v is <<v>>
Some(v) == <<v>>
Nullable(S) == {NULL} \cup {Some(v) : v \in S}

(***************************************************************************)
(* SQL helpers                                                             *)
(***************************************************************************)
\* coalesce(p, col)
Coalesce(p, col) == IF p = NULL THEN col ELSE p[1]

\* order by transaction_date_time, id   (ascending)
OrderBefore_ById(r, q) == r.id < q.id

OrderBefore(r, q) ==
    r.transaction_date_time < q.transaction_date_time
        \/ (r.transaction_date_time = q.transaction_date_time /\ r.id < q.id)

\* the rows of S as the sequence the window's ORDER BY yields
RECURSIVE SortRows(_)
SortRows(S) ==
    IF S = {} THEN <<>>
    ELSE LET first == CHOOSE r \in S : \A q \in S \ {r} : OrderBefore(r, q)
         IN  <<first>> \o SortRows(S \ {first})

\* sum(amount) over (... rows between unbounded preceding and current row),
\* for the row at position i of the ordered partition
RECURSIVE RunningAt(_, _)
RunningAt(sorted, i) ==
    IF i = 0 THEN 0 ELSE RunningAt(sorted, i - 1) + sorted[i].amount

\* the derived table s of fn_transaction_recompute: id -> running
WindowRunning_SkipsCurrentRow(rows, p_account_id) ==
    LET part   == {r \in rows : r.account_id = p_account_id}
        sorted == SortRows(part)
    IN  [id \in {r.id : r \in part} |->
            LET i == CHOOSE k \in 1..Len(sorted) : sorted[k].id = id
            IN  RunningAt(sorted, i - 1)]

WindowRunning(rows, p_account_id) ==
    LET part   == {r \in rows : r.account_id = p_account_id}
        sorted == SortRows(part)
    IN  [id \in {r.id : r \in part} |->
            LET i == CHOOSE k \in 1..Len(sorted) : sorted[k].id = id
            IN  RunningAt(sorted, i)]

\* update transaction t set balance = s.running from (...) s where t.id = s.id
fn_transaction_recompute_AddsToBalance(rows, p_account_id) ==
    LET s == WindowRunning(rows, p_account_id)
    IN  {IF r.id \in DOMAIN s
            THEN [r EXCEPT !.balance = r.balance + s[r.id]] ELSE r : r \in rows}

fn_transaction_recompute(rows, p_account_id) ==
    LET s == WindowRunning(rows, p_account_id)
    IN  {IF r.id \in DOMAIN s THEN [r EXCEPT !.balance = s[r.id]] ELSE r : r \in rows}

RowById(rows, id) == CHOOSE r \in rows : r.id = id

\* an answer: the call, the HTTP status its route gives (200, or 4xx/5xx with
\* {error: message}), the error message and the row handed back
Answer(op, account_id, tx_id, status, error, row) ==
    [op |-> op, account_id |-> account_id, tx_id |-> tx_id, status |-> status,
     error |-> error, row |-> row]

NoAnswer == Answer("none", 0, 0, 0, NULL, NULL)

Sessions == {1, 2}
Idle == [pc |-> "idle", op |-> "none", account_id |-> 0, tx_id |-> 0,
         writes |-> {}, dels |-> {}, s |-> <<>>]

(***************************************************************************)
(* Requests and identities (lib/server/auth.ts)                            *)
(*                                                                         *)
(* A request carries an Authorization header, or none.  A header is the    *)
(* pair of its first seven characters and the rest, so that                *)
(* startsWith("Bearer ") and slice(7) are what they are in the code.  The  *)
(* identity provider's answer to auth.getUser(token) is an input of the    *)
(* request: the call throws, or gives an error, or gives no user, or gives *)
(* the user the token was issued to.                                       *)
(***************************************************************************)
\* the users the identity provider knows: id, email (a user may have none)
Users ==
    {[id |-> 1, email |-> Some("Admin@Ledger.io")],
     [id |-> 2, email |-> Some("editor@ledger.io")],
     [id |-> 3, email |-> NULL]}
UserIds == {u.id : u \in Users}

\* String.prototype.toLowerCase on the emails above
toLowerCase(e) == IF e = "Admin@Ledger.io" THEN "admin@ledger.io" ELSE e

\* NEXT_PUBLIC_ADMIN_EMAILS split, trimmed and lower-cased
ADMIN_EMAILS == {"admin@ledger.io"}

isAdminEmail_Anyone(email) == TRUE

isAdminEmail(email) == email # NULL /\ toLowerCase(email[1]) \in ADMIN_EMAILS

\* the token the provider issued to a user
TokenOf(u) == IF u.id = 1 THEN "t1" ELSE IF u.id = 2 THEN "t2" ELSE "t3"

Header(first7, rest) == Some([first7 |-> first7, rest |-> rest])
Headers ==
    {NULL, Header("Basic t", "1"), Header("bearer ", "t1"), Header("Bearer ", ""),
     Header("Bearer ", "t1"), Header("Bearer ", "t2"), Header("Bearer ", "t3")}

IdpAnswer(throws, error, user) == [throws |-> throws, error |-> error, user |-> user]
IdpThrows == IdpAnswer(TRUE, FALSE, NULL)
IdpError == IdpAnswer(FALSE, TRUE, NULL)
IdpNoUser == IdpAnswer(FALSE, FALSE, NULL)
IdpUser(u) == IdpAnswer(FALSE, FALSE, Some(u))

\* every request the model sends: a header, and the answer the provider gives
\* when it is asked about the seven-character-stripped rest of the header (a
\* user only for that user's own token)
Requests ==
    {[authorization |-> h, idp |-> a] :
        h \in Headers, a \in {IdpThrows, IdpError, IdpNoUser}}
    \cup {[authorization |-> Header(p, TokenOf(u)), idp |-> IdpUser(u)] :
            p \in {"Bearer ", "bearer "}, u \in Users}

\* getBearerToken: undefined (NULL) or the text after "Bearer "
getBearerToken_AnyScheme(request) ==
    IF request.authorization = NULL THEN NULL
    ELSE Some(request.authorization[1].rest)

getBearerToken(request) ==
    IF request.authorization = NULL THEN NULL
    ELSE IF request.authorization[1].first7 = "Bearer "
            THEN Some(request.authorization[1].rest)
            ELSE NULL

Unauthorized == [user |-> NULL, error |-> Some("Unauthorized")]

\* getUserFromRequest: {user, error}; "!token" holds for undefined and for ""
getUserFromRequest(request) ==
    LET token == getBearerToken(request)
    IN  IF token = NULL \/ token = Some("") THEN Unauthorized
        ELSE IF request.idp.throws THEN Unauthorized
        ELSE IF request.idp.error \/ request.idp.user = NULL THEN Unauthorized
        ELSE [user |-> request.idp.user, error |-> NULL]

\* what a gate gives the handler: the user (status 200) or the response to send
Gate(status, error, user) == [status |-> status, error |-> error, user |-> user]

requireAuth(request) ==
    LET r == getUserFromRequest(request)
    IN  IF r.error # NULL \/ r.user = NULL
           THEN Gate(401, Some("Unauthorized"), NULL)
           ELSE Gate(200, NULL, r.user)

requireAdmin_AnyUser(request) == requireAuth(request)

requireAdmin(request) ==
    LET auth == requireAuth(request)
    IN  IF auth.status # 200 THEN auth
        ELSE IF ~isAdminEmail(auth.user[1].email)
                THEN Gate(403, Some("Forbidden"), NULL)
                ELSE auth

\* a path parameter: a number in decimal digits, or a text that /^\d+$/ refuses
BadId == -1
IsDigits(param) == param >= 0

\* a JSON string as the number of its characters that trim() keeps and the
\* number of white-space characters around them
Text(len, pad) == [len |-> len, pad |-> pad]
trim(s) == Text(s.len, 0)
length(s) == s.len + s.pad

\* body.amount: no such key, null, a number, or a string that is no number
Undefined == [t |-> "undefined", n |-> 0]
JsonNull == [t |-> "null", n |-> 0]
Num(n) == [t |-> "number", n |-> n]
NotANumber == [t |-> "string", n |-> 0]
NaN == [t |-> "NaN", n |-> 0]

\* Number(v)
Number(v) ==
    IF v.t = "number" THEN v
    ELSE IF v.t = "null" THEN Num(0)
    ELSE NaN

isFinite(v) == v.t = "number"

\* a request body: title (NULL or Some(text)), description (NULL when the key is
\* absent, else Some(null) or Some(Some(text))), amount, transaction_date_time
\* (NULL, Some(instant), or Some(BadTime) for a text in neither accepted format),
\* editors and viewers (NULL when not an array, else a sequence)
Body(title, description, amount, time, editors, viewers) ==
    [title |-> title, description |-> description, amount |-> amount,
     transaction_date_time |-> time, editors |-> editors, viewers |-> viewers]
NoBody == Body(NULL, NULL, Undefined, NULL, NULL, NULL)
BadTime == 0

\* the query string of a list request: each parameter is absent (NULL) or
\* Some(value); page and perPage are a number in digits (Num) or a text that is
\* no number, sort is a column name, order a word
Query(page, perPage, sort, order) ==
    [page |-> page, perPage |-> perPage, sort |-> sort, order |-> order]
NoQuery == Query(NULL, NULL, NULL, NULL)

\* the request a handler answered and what the handler did at the store for it
Request(handler, request, id, txId, body, store, rpc) ==
    [handler |-> handler, authorization |-> request.authorization,
     idp |-> request.idp, id |-> id, txId |-> txId, body |-> body,
     query |-> NoQuery, store |-> store, rpc |-> rpc]
NoRequest ==
    Request("none", [authorization |-> NULL, idp |-> IdpNoUser], 0, 0, NoBody, 0, 0)

NoHistory == [admitted |-> {}, refused |-> {}]

(***************************************************************************)
(* The stored procedures, each one store transaction                       *)
(***************************************************************************)
\* the row the create hands back: "returning * into v_row" after the insert, then
\* "select * into v_row from transaction where id = v_row.id" after the recompute
CreateReturnedRow_NotReRead(inserted, after, id) == RowById(inserted, id)

CreateReturnedRow(inserted, after, id) == RowById(after, id)

\* fn_transaction_create_and_recompute
CreateAndRecompute(p_account_id, p_amount, p_transaction_date_time) ==
    /\ nextId < MaxTx
    /\ LET id       == nextId + 1
           inserted == tx \cup {[id |-> id, account_id |-> p_account_id,
                                 amount |-> p_amount,
                                 transaction_date_time |-> p_transaction_date_time,
                                 balance |-> 0]}
           after    == fn_transaction_recompute(inserted, p_account_id)
           v_row    == CreateReturnedRow(inserted, after, id)
       IN  /\ tx' = after
           /\ nextId' = id
           /\ res' = Answer("create", p_account_id, id, 200, NULL, Some(v_row))
           /\ runs' = 0
           /\ UNCHANGED <<calls, sess, routeVars>>

\* the rows "update transaction ... where id = p_tx_id and account_id = p_account_id" hits
UpdateTargets_AnyAccount(rows, p_account_id, p_tx_id) ==
    {r \in rows : r.id = p_tx_id}

UpdateTargets(rows, p_account_id, p_tx_id) ==
    {r \in rows : r.id = p_tx_id /\ r.account_id = p_account_id}

\* fn_transaction_update_and_recompute
UpdateAndRecompute(p_account_id, p_tx_id, p_amount, p_transaction_date_time) ==
    LET hit     == UpdateTargets(tx, p_account_id, p_tx_id)
        updated == {IF r \in hit
                       THEN [r EXCEPT !.amount = Coalesce(p_amount, r.amount),
                                      !.transaction_date_time =
                                          Coalesce(p_transaction_date_time,
                                                   r.transaction_date_time)]
                       ELSE r : r \in tx}
        after   == fn_transaction_recompute(updated, p_account_id)
    IN  /\ UNCHANGED <<nextId, calls, sess, routeVars>>
        /\ runs' = 0
        /\ IF hit = {}
              THEN \* raise exception 'Transaction not found': the call is undone
                   /\ tx' = tx
                   /\ res' = Answer("update", p_account_id, p_tx_id, 500,
                                    Some("Transaction not found"), NULL)
              ELSE /\ tx' = after
                   /\ res' = Answer("update", p_account_id, p_tx_id, 200, NULL,
                                    Some(RowById(after, p_tx_id)))

\* the rows "delete from transaction where id = p_tx_id and account_id = p_account_id" removes
DeleteTargets_AnyAccount(rows, p_account_id, p_tx_id) ==
    {r \in rows : r.id = p_tx_id}

DeleteTargets(rows, p_account_id, p_tx_id) ==
    {r \in rows : r.id = p_tx_id /\ r.account_id = p_account_id}

\* fn_transaction_delete_and_recompute (returns void; no "if not found")
DeleteAndRecompute_NoRecompute(p_account_id, p_tx_id) ==
    /\ tx' = tx \ DeleteTargets(tx, p_account_id, p_tx_id)
    /\ UNCHANGED <<nextId, calls, sess, routeVars>>
    /\ runs' = 0
    /\ res' = Answer("delete", p_account_id, p_tx_id, 200, NULL, NULL)

DeleteAndRecompute(p_account_id, p_tx_id) ==
    LET remaining == tx \ DeleteTargets(tx, p_account_id, p_tx_id)
        after     == fn_transaction_recompute(remaining, p_account_id)
    IN  /\ tx' = after
        /\ UNCHANGED <<nextId, calls, sess, routeVars>>
        /\ runs' = 0
        /\ res' = Answer("delete", p_account_id, p_tx_id, 200, NULL, NULL)

\* fn_transaction_recompute called on its own (it is a public function)
Recompute(p_account_id) ==
    /\ tx' = fn_transaction_recompute(tx, p_account_id)
    /\ UNCHANGED <<nextId, calls, sess, routeVars>>
    /\ res' = Answer("recompute", p_account_id, 0, 200, NULL, NULL)
    /\ runs' = IF res.op = "recompute" /\ res.account_id = p_account_id
                  THEN (IF runs < MaxRuns THEN runs + 1 ELSE runs)
                  ELSE 1

Init ==
    /\ tx = {}
    /\ nextId = 0
    /\ res = NoAnswer
    /\ runs = 0
    /\ calls = 0
    /\ sess = [p \in Sessions |-> Idle]
    /\ account = {}
    /\ nextAccountId = 0
    /\ member = {}
    /\ req = NoRequest
    /\ hist = NoHistory

Next ==
    \/ \E a \in Accounts, m \in Amounts, t \in Times : CreateAndRecompute(a, m, t)
    \/ \E a \in Accounts, i \in TxIds, m \in Nullable(Amounts), t \in Nullable(Times) :
          UpdateAndRecompute(a, i, m, t)
    \/ \E a \in Accounts, i \in TxIds : DeleteAndRecompute(a, i)

\* the procedures called one at a time on two accounts
Spec == Init /\ [][Next]_vars

NextLedger ==
    \/ \E a \in LedgerAccounts, m \in LedgerAmounts, t \in LedgerTimes :
          CreateAndRecompute(a, m, t)
    \/ \E a \in LedgerAccounts, i \in TxIds,
          m \in Nullable(LedgerAmounts), t \in Nullable(LedgerTimes) :
          UpdateAndRecompute(a, i, m, t)
    \/ \E a \in LedgerAccounts, i \in TxIds : DeleteAndRecompute(a, i)

\* the procedures called one at a time on one ledger, with three instants
SpecLedger == Init /\ [][NextLedger]_vars

(***************************************************************************)
(* The route handlers that keep the balance column incrementally           *)
(* (POST /accounts/{id}/transactions, and the PATCH and DELETE of          *)
(* /accounts/{id}/transactions/{txId} that admit the latest row only)      *)
(***************************************************************************)

\* .eq("account_id", id).order("transaction_date_time", desc).order("id", desc)
\* .limit(1).single(): the row, or NULL when the account has no row
Latest_ById(rows, account_id) ==
    LET part == {r \in rows : r.account_id = account_id}
    IN  IF part = {} THEN NULL
        ELSE Some(CHOOSE r \in part : \A q \in part : q.id <= r.id)

Latest(rows, account_id) ==
    LET part == {r \in rows : r.account_id = account_id}
    IN  IF part = {} THEN NULL
        ELSE Some(CHOOSE r \in part : \A q \in part \ {r} : OrderBefore(q, r))

\* the same query with .lt("transaction_date_time", effectiveIso)
PreviousBefore(rows, account_id, effectiveIso) ==
    Latest({r \in rows : r.transaction_date_time < effectiveIso}, account_id)

\* Number(row?.balance ?? 0) || 0
BalanceOrZero(row) == IF row = NULL THEN 0 ELSE row[1].balance

\* POST: an explicit transaction_date_time, or the clock's instant when the body
\* has none, is the instant t
IncrementalPost(account_id, amount, t) ==
    LET latest     == Latest(tx, account_id)
        newBalance == BalanceOrZero(latest) + amount
        id         == nextId + 1
        row        == [id |-> id, account_id |-> account_id, amount |-> amount,
                       transaction_date_time |-> t, balance |-> newBalance]
    IN  /\ calls < MaxCalls
        /\ calls' = calls + 1
        /\ UNCHANGED <<sess, routeVars>>
        /\ runs' = 0
        /\ IF latest # NULL /\ t < latest[1].transaction_date_time
              THEN /\ UNCHANGED <<tx, nextId>>
                   /\ res' = Answer("POST", account_id, 0, 400,
                                    Some("Cannot create back-dated transaction"), NULL)
              ELSE /\ nextId < MaxTx
                   /\ tx' = tx \cup {row}
                   /\ nextId' = id
                   /\ res' = Answer("POST", account_id, id, 200, NULL, Some(row))

\* PATCH: body.amount and body.transaction_date_time (value or absent), and
\* whether the body carries a title or description
IncrementalPatch(account_id, txId, amount, time, other) ==
    LET latest == Latest(tx, account_id)
    IN  /\ calls < MaxCalls
        /\ calls' = calls + 1
        /\ UNCHANGED <<sess, routeVars>>
        /\ runs' = 0
        /\ UNCHANGED nextId
        /\ IF latest = NULL
              THEN \* .single() on no row is an error: 500
                   /\ UNCHANGED tx
                   /\ res' = Answer("PATCH", account_id, txId, 500,
                                    Some("no rows returned"), NULL)
           ELSE IF latest[1].id # txId
              THEN /\ UNCHANGED tx
                   /\ res' = Answer("PATCH", account_id, txId, 409,
                                    Some("Only latest transaction can be modified"), NULL)
           ELSE IF amount = NULL /\ time = NULL /\ ~other
              THEN /\ UNCHANGED tx
                   /\ res' = Answer("PATCH", account_id, txId, 400,
                                    Some("No changes provided"), NULL)
           ELSE LET effectiveIso == Coalesce(time, latest[1].transaction_date_time)
                    prev         == PreviousBefore(tx, account_id, effectiveIso)
                    newBalance   == BalanceOrZero(prev) + amount[1]
                    target       == latest[1]
                    patched      ==
                        [target EXCEPT
                            !.transaction_date_time =
                                Coalesce(time, target.transaction_date_time),
                            !.amount = Coalesce(amount, target.amount),
                            !.balance = IF amount = NULL THEN target.balance
                                                         ELSE newBalance]
                IN  /\ tx' = (tx \ {target}) \cup {patched}
                    /\ res' = Answer("PATCH", account_id, txId, 200, NULL, Some(patched))

\* DELETE of the latest row
IncrementalDelete(account_id, txId) ==
    LET latest == Latest(tx, account_id)
    IN  /\ calls < MaxCalls
        /\ calls' = calls + 1
        /\ UNCHANGED <<sess, routeVars>>
        /\ runs' = 0
        /\ UNCHANGED nextId
        /\ IF latest = NULL
              THEN /\ UNCHANGED tx
                   /\ res' = Answer("DELETE", account_id, txId, 500,
                                    Some("no rows returned"), NULL)
           ELSE IF latest[1].id # txId
              THEN /\ UNCHANGED tx
                   /\ res' = Answer("DELETE", account_id, txId, 409,
                                    Some("Only latest transaction can be modified"), NULL)
           ELSE /\ tx' = {r \in tx : ~(r.id = txId /\ r.account_id = account_id)}
                /\ res' = Answer("DELETE", account_id, txId, 200, NULL, NULL)

NextIncremental ==
    \/ \E a \in Accounts, m \in Amounts, t \in Times : IncrementalPost(a, m, t)
    \/ \E a \in Accounts, i \in TxIds, m \in Nullable(Amounts), t \in Nullable(Times),
          o \in BOOLEAN : IncrementalPatch(a, i, m, t, o)
    \/ \E a \in Accounts, i \in TxIds : IncrementalDelete(a, i)

\* the incremental handlers called one at a time
SpecIncremental == Init /\ [][NextIncremental]_vars

(***************************************************************************)
(* The route handlers behind the authorization gates.  One action is one   *)
(* request answered; req.store counts the statements the handler sent to   *)
(* the store and req.rpc the stored procedures it called.  The answer and  *)
(* the record of the request stay until the response has been sent.        *)
(***************************************************************************)
Tables == <<tx, nextId, account, nextAccountId, member>>

\* NextResponse.json(...): the answer, and the record of the request
Respond(handler, request, id, txId, body, status, error, row, store, rpc) ==
    /\ res' = Answer(handler, id, txId, status, error, row)
    /\ req' = Request(handler, request, id, txId, body, store, rpc)

\* from("account-member").select("uid").eq("account_id", id).eq("uid", uid).limit(1)
MemberRows_Remembered(rows, id, uid) ==
    {m \in rows : m.account_id = id /\ m.uid = uid}
        \cup {[account_id |-> id, uid |-> uid, type |-> "VIEWER"] :
                 x \in {y \in hist.admitted : y = <<uid, id>>}}

MemberRows(rows, id, uid) == {m \in rows : m.account_id = id /\ m.uid = uid}

\* ... .eq("type", "EDITOR").limit(1)
EditorRows_AnyType(rows, id, uid) == MemberRows(rows, id, uid)

EditorRows(rows, id, uid) == {m \in MemberRows(rows, id, uid) : m.type = "EDITOR"}

\* the answer of a list route, and the record of the request
RespondList(handler, request, id, query, status, error, row, store) ==
    /\ res' = Answer(handler, id, 0, status, error, row)
    /\ req' = [Request(handler, request, id, 0, NoBody, store, 0) EXCEPT !.query = query]

\* the history of the membership check: one more pair admitted, or refused
Admitted(uid, id) == [hist EXCEPT !.admitted = @ \cup {<<uid, id>>}]
Refused(uid, id) == [hist EXCEPT !.refused = @ \cup {<<uid, id>>}]

\* the rows of S in descending (transaction_date_time, id)
RECURSIVE SortRowsDesc(_)
SortRowsDesc(S) ==
    IF S = {} THEN <<>>
    ELSE LET first == CHOOSE r \in S : \A q \in S \ {r} : OrderBefore(q, r)
         IN  <<first>> \o SortRowsDesc(S \ {first})

DefaultPage == 1
DefaultPerPage == 25
MaxPerPage == 100

Max(a, b) == IF a >= b THEN a ELSE b
Min(a, b) == IF a <= b THEN a ELSE b

\* Number(searchParams.get(name) ?? fallback) || fallback: the fallback for an
\* absent parameter, for a text that is no number and for 0
NumberOr(param, fallback) ==
    LET n == Number(IF param = NULL THEN Num(fallback) ELSE param[1])
    IN  IF n.t = "number" /\ n.n # 0 THEN n.n ELSE fallback

parsePaging(query) ==
    [page    |-> Max(1, NumberOr(query.page, DefaultPage)),
     perPage |-> Min(MaxPerPage, Max(1, NumberOr(query.perPage, DefaultPerPage)))]

\* .range(from, to): the rows at positions from..to (counted from 0) of the
\* ordered result
Range_FromPage(ordered, from, to) == SubSeq(ordered, from + 2, Min(to + 2, Len(ordered)))

Range(ordered, from, to) == SubSeq(ordered, from + 1, Min(to + 1, Len(ordered)))

\* NextResponse.json({data, page, perPage, total})
Listing(data, page, perPage, total) ==
    [data |-> data, page |-> page, perPage |-> perPage, total |-> total]

\* GET /accounts/{id}/transactions?page=..&perPage=..
GetTransactionsPage(request, id, query) ==
    LET h       == "GET /accounts/{id}/transactions"
        user    == requireAuth(request)
        uid     == user.user[1].id
        admin   == isAdminEmail(user.user[1].email)
        paging  == parsePaging(query)
        from    == (paging.page - 1) * paging.perPage
        to      == from + paging.perPage - 1
        rows    == {r \in tx : r.account_id = id}
    IN  /\ req = NoRequest
        /\ calls < MaxCalls
        /\ calls' = calls + 1
        /\ UNCHANGED <<Tables, runs, sess>>
        /\ IF user.status # 200
              THEN /\ RespondList(h, request, id, query, user.status, user.error, NULL, 0)
                   /\ UNCHANGED hist
           ELSE IF ~IsDigits(id)
              THEN /\ RespondList(h, request, id, query, 400, Some("Invalid id"), NULL, 0)
                   /\ UNCHANGED hist
           ELSE IF ~admin /\ MemberRows(member, id, uid) = {}
              THEN /\ RespondList(h, request, id, query, 403, Some("Forbidden"), NULL, 1)
                   /\ hist' = Refused(uid, id)
           ELSE /\ RespondList(h, request, id, query, 200, NULL,
                               Some(Listing(Range(SortRowsDesc(rows), from, to),
                                            paging.page, paging.perPage,
                                            Cardinality(rows))),
                               IF admin THEN 1 ELSE 2)
                /\ hist' = IF admin THEN hist ELSE Admitted(uid, id)

\* GET /accounts/{id}/transactions with no query string
GetTransactions(request, id) == GetTransactionsPage(request, id, NoQuery)

MinTitle == 3
MaxTitle == 120

\* "Title must be 3-120 characters"

TitleRefused(title) == length(trim(title)) < MinTitle \/ length(trim(title)) > MaxTitle

\* POST /accounts/{id}/transactions; now is the clock's instant
PostTransaction(request, id, title, description, amount, time, now) ==
    LET h         == "POST /accounts/{id}/transactions"
        body      == Body(title, description, amount, time, NULL, NULL)
        user      == requireAuth(request)
        uid       == user.user[1].id
        admin     == isAdminEmail(user.user[1].email)
        titleText == IF title = NULL THEN Text(0, 0) ELSE title[1]
        amountRaw == Number(amount)
        txDateIso == IF time = NULL THEN now ELSE time[1]
        latest    == Latest(tx, id)
        newId     == nextId + 1
        row       == [id |-> newId, account_id |-> id, amount |-> amountRaw.n,
                      transaction_date_time |-> txDateIso,
                      balance |-> BalanceOrZero(latest) + amountRaw.n,
                      created_by |-> uid, title |-> trim(titleText),
                      description |-> IF description = NULL THEN NULL ELSE description[1]]
        checked   == IF admin THEN 0 ELSE 1
    IN  /\ req = NoRequest
        /\ calls < MaxCalls
        /\ calls' = calls + 1
        /\ UNCHANGED <<runs, sess, account, nextAccountId, member>>
        /\ IF user.status # 200
              THEN /\ Respond(h, request, id, 0, body, user.status, user.error, NULL, 0, 0)
                   /\ UNCHANGED <<tx, nextId, hist>>
           ELSE IF ~IsDigits(id)
              THEN /\ Respond(h, request, id, 0, body, 400, Some("Invalid id"), NULL, 0, 0)
                   /\ UNCHANGED <<tx, nextId, hist>>
           ELSE IF ~admin /\ EditorRows(member, id, uid) = {}
              THEN /\ Respond(h, request, id, 0, body, 403, Some("Forbidden"), NULL, 1, 0)
                   /\ hist' = Refused(uid, id)
                   /\ UNCHANGED <<tx, nextId>>
           ELSE /\ hist' = IF admin THEN hist ELSE Admitted(uid, id)
                /\ IF TitleRefused(titleText)
                      THEN /\ Respond(h, request, id, 0, body, 400,
                                      Some("Title must be 3-120 characters"), NULL,
                                      checked, 0)
                           /\ UNCHANGED <<tx, nextId>>
                   ELSE IF ~isFinite(amountRaw)
                      THEN /\ Respond(h, request, id, 0, body, 400,
                                      Some("Amount must be a valid number"), NULL,
                                      checked, 0)
                           /\ UNCHANGED <<tx, nextId>>
                   ELSE IF time = Some(BadTime)
                      THEN /\ Respond(h, request, id, 0, body, 400,
                                      Some("Invalid transaction_date_time format"), NULL,
                                      checked, 0)
                           /\ UNCHANGED <<tx, nextId>>
                   ELSE IF latest # NULL /\ txDateIso < latest[1].transaction_date_time
                      THEN /\ Respond(h, request, id, 0, body, 400,
                                      Some("Cannot create back-dated transaction; please use a later date/time"),
                                      NULL, checked + 1, 0)
                           /\ UNCHANGED <<tx, nextId>>
                   ELSE /\ nextId < MaxTx
                        /\ tx' = tx \cup {row}
                        /\ nextId' = newId
                        /\ Respond(h, request, id, newId, body, 200, NULL, Some(row),
                                   checked + 2, 0)

\* body.amount != null ? Number(body.amount) : null, as the procedure's p_amount
AmountParam(amount) ==
    IF amount.t \in {"undefined", "null"} THEN NULL ELSE Some(Number(amount).n)

\* title == null && !descriptionIsSet && amount == null && timeIso == null
NoChanges_Never(title, description, amount, time) == FALSE

NoChanges(title, description, amount, time) ==
    title = NULL /\ description = NULL /\ AmountParam(amount) = NULL /\ time = NULL

\* update transaction set title = coalesce(p_title, title), description = case
\* when p_description_is_set then p_description else description end, amount =
\* coalesce(p_amount, amount), transaction_date_time = coalesce(...)
UpdateSet_DescriptionAlways(r, p_title, p_description, p_amount, p_transaction_date_time, p_description_is_set) ==
    [r EXCEPT !.title = Coalesce(p_title, @),
              !.description = p_description,
              !.amount = Coalesce(p_amount, @),
              !.transaction_date_time = Coalesce(p_transaction_date_time, @)]

UpdateSet(r, p_title, p_description, p_amount, p_transaction_date_time, p_description_is_set) ==
    [r EXCEPT !.title = Coalesce(p_title, @),
              !.description = IF p_description_is_set THEN p_description ELSE @,
              !.amount = Coalesce(p_amount, @),
              !.transaction_date_time = Coalesce(p_transaction_date_time, @)]

\* PATCH /accounts/{id}/transactions/{txId}, through fn_transaction_update_and_recompute
PatchTransaction(request, id, txId, title, description, amount, time) ==
    LET h         == "PATCH /accounts/{id}/transactions/{txId}"
        body      == Body(title, description, amount, time, NULL, NULL)
        adminUser == requireAdmin(request)
        hit       == UpdateTargets(tx, id, txId)
        updated   == {IF r \in hit
                         THEN UpdateSet(r,
                                        IF title = NULL THEN NULL ELSE Some(trim(title[1])),
                                        IF description = NULL THEN NULL ELSE description[1],
                                        AmountParam(amount), time, description # NULL)
                         ELSE r : r \in tx}
        after     == fn_transaction_recompute(updated, id)
    IN  /\ req = NoRequest
        /\ calls < MaxCalls
        /\ calls' = calls + 1
        /\ UNCHANGED <<nextId, runs, sess, routeVarsButReq>>
        /\ IF adminUser.status # 200
              THEN /\ Respond(h, request, id, txId, body, adminUser.status,
                              adminUser.error, NULL, 0, 0)
                   /\ UNCHANGED tx
           ELSE IF ~IsDigits(id) \/ ~IsDigits(txId)
              THEN /\ Respond(h, request, id, txId, body, 400, Some("Invalid id"), NULL, 0, 0)
                   /\ UNCHANGED tx
           ELSE IF title # NULL /\ TitleRefused(title[1])
              THEN /\ Respond(h, request, id, txId, body, 400,
                              Some("Title must be 3-120 characters"), NULL, 0, 0)
                   /\ UNCHANGED tx
           ELSE IF AmountParam(amount) # NULL /\ ~isFinite(Number(amount))
              THEN /\ Respond(h, request, id, txId, body, 400,
                              Some("Amount must be a valid number"), NULL, 0, 0)
                   /\ UNCHANGED tx
           ELSE IF time = Some(BadTime)
              THEN /\ Respond(h, request, id, txId, body, 400,
                              Some("Invalid transaction_date_time format"), NULL, 0, 0)
                   /\ UNCHANGED tx
           ELSE IF NoChanges(title, description, amount, time)
              THEN /\ Respond(h, request, id, txId, body, 400,
                              Some("No changes provided"), NULL, 0, 0)
                   /\ UNCHANGED tx
           ELSE IF hit = {}
              THEN /\ Respond(h, request, id, txId, body, 500,
                              Some("Transaction not found"), NULL, 1, 1)
                   /\ UNCHANGED tx
           ELSE /\ tx' = after
                /\ Respond(h, request, id, txId, body, 200, NULL,
                           Some(RowById(after, txId)), 1, 1)

\* DELETE /accounts/{id}/transactions/{txId}, through fn_transaction_delete_and_recompute
DeleteTransaction(request, id, txId) ==
    LET h         == "DELETE /accounts/{id}/transactions/{txId}"
        adminUser == requireAdmin(request)
        remaining == tx \ DeleteTargets(tx, id, txId)
    IN  /\ req = NoRequest
        /\ calls < MaxCalls
        /\ calls' = calls + 1
        /\ UNCHANGED <<nextId, runs, sess, routeVarsButReq>>
        /\ IF adminUser.status # 200
              THEN /\ Respond(h, request, id, txId, NoBody, adminUser.status,
                              adminUser.error, NULL, 0, 0)
                   /\ UNCHANGED tx
           ELSE IF ~IsDigits(id) \/ ~IsDigits(txId)
              THEN /\ Respond(h, request, id, txId, NoBody, 400, Some("Invalid id"),
                              NULL, 0, 0)
                   /\ UNCHANGED tx
           ELSE /\ tx' = fn_transaction_recompute(remaining, id)
                /\ Respond(h, request, id, txId, NoBody, 200, NULL, NULL, 1, 1)

(***************************************************************************)
(* The account routes: the rows of "account" and of "account-member"       *)
(***************************************************************************)
MaxAccountTitle == 80

\* "Title must be 3-80 characters"
AccountTitleRefused(title) ==
    length(trim(title)) < MinTitle \/ length(trim(title)) > MaxAccountTitle

\* an entry of body.editors / body.viewers: a user id, or a value that is no
\* string or does not match uuidRe
NotAUuid == 0
IsUuid(v) == v # NotAUuid

\* Array.isArray(list) ? list : []
ArrayOrEmpty(list) == IF list = NULL THEN <<>> ELSE list[1]

\* norm: Array.from(new Set(arr.filter(isUuid)))
norm(arr) == {arr[i] : i \in {j \in DOMAIN arr : IsUuid(arr[j])}}

\* new Set(editorsClean.filter((id) => viewersClean.includes(id)))
overlap_None(editorsClean, viewersClean) == {}

overlap(editorsClean, viewersClean) == editorsClean \cap viewersClean

\* memberRows
memberRows(id, editorsClean, viewersClean) ==
    {[account_id |-> id, uid |-> uid, type |-> "EDITOR"] : uid \in editorsClean}
        \cup {[account_id |-> id, uid |-> uid, type |-> "VIEWER"] : uid \in viewersClean}

\* description: body.description == null ? null : String(body.description)
DescriptionValue(description) == IF description = NULL THEN NULL ELSE description[1]

AccountRow(id, title, description, created_by) ==
    [id |-> id, title |-> title, description |-> description, created_by |-> created_by]

\* from("account").select(...).eq("id", id).single(): the row, or NULL (an error)
AccountById(rows, id) ==
    IF \E a \in rows : a.id = id THEN Some(CHOOSE a \in rows : a.id = id) ELSE NULL

\* GET /accounts/{id}
GetAccount(request, id) ==
    LET h         == "GET /accounts/{id}"
        adminUser == requireAdmin(request)
        data      == AccountById(account, id)
    IN  /\ req = NoRequest
        /\ calls < MaxCalls
        /\ calls' = calls + 1
        /\ UNCHANGED <<Tables, runs, sess, hist>>
        /\ IF adminUser.status # 200
              THEN Respond(h, request, id, 0, NoBody, adminUser.status, adminUser.error,
                           NULL, 0, 0)
           ELSE IF ~IsDigits(id)
              THEN Respond(h, request, id, 0, NoBody, 400, Some("Invalid id"), NULL, 0, 0)
           ELSE IF data = NULL
              THEN Respond(h, request, id, 0, NoBody, 500, Some("no rows returned"),
                           NULL, 1, 0)
           ELSE Respond(h, request, id, 0, NoBody, 200, NULL,
                        Some([data |-> data[1],
                              members |-> {[uid |-> m.uid, type |-> m.type] :
                                              m \in {x \in member : x.account_id = id}}]),
                        2, 0)

\* the columns .order(sort) can name
AccountColumns == {"id", "title", "description", "created_by", "created_at"}

\* (searchParams.get("sort") ?? "title"), (searchParams.get("order") ?? "asc")
\* lower-cased: "desc" or, for anything else, "asc"
parseSorting(query) ==
    [sort  |-> IF query.sort = NULL THEN "title" ELSE query.sort[1],
     order |-> IF query.order \in {Some("desc"), Some("DESC")} THEN "desc" ELSE "asc"]

\* every arrangement of the rows of S in a sequence
Arrangements(S) ==
    {f \in [1..Cardinality(S) -> S] : \A i, j \in 1..Cardinality(S) : i # j => f[i] # f[j]}

\* .order(sort, {ascending}): by id the one sequence in that order; by another
\* column any arrangement (the model keeps of a title only its length and no
\* created_at, so it cannot tell which the store gives)
Ordered(S, sort, order) ==
    IF sort = "id"
       THEN {f \in Arrangements(S) :
                \A i, j \in 1..Cardinality(S) :
                    i < j => IF order = "asc" THEN f[i].id < f[j].id ELSE f[i].id > f[j].id}
       ELSE Arrangements(S)

\* from("account-member").select("account_id").eq("uid", uid)
MemberAccountIds_Everyone(rows, uid) == {m.account_id : m \in rows}

MemberAccountIds(rows, uid) == {m.account_id : m \in {x \in rows : x.uid = uid}}

\* GET /accounts?page=..&perPage=..&sort=..&order=..
GetAccounts(request, query) ==
    LET h          == "GET /accounts"
        auth       == requireAuth(request)
        isAdmin    == isAdminEmail(auth.user[1].email)
        paging     == parsePaging(query)
        sorting    == parseSorting(query)
        from       == (paging.page - 1) * paging.perPage
        to         == from + paging.perPage - 1
        accountIds == MemberAccountIds(member, auth.user[1].id)
        rows       == IF isAdmin THEN account ELSE {a \in account : a.id \in accountIds}
    IN  /\ req = NoRequest
        /\ calls < MaxCalls
        /\ calls' = calls + 1
        /\ UNCHANGED <<Tables, runs, sess, hist>>
        /\ IF auth.status # 200
              THEN RespondList(h, request, 0, query, auth.status, auth.error, NULL, 0)
           ELSE IF ~isAdmin /\ accountIds = {}
              THEN RespondList(h, request, 0, query, 200, NULL,
                               Some(Listing(<<>>, paging.page, paging.perPage, 0)), 1)
           ELSE IF sorting.sort \notin AccountColumns
              THEN RespondList(h, request, 0, query, 500, Some("column does not exist"),
                               NULL, IF isAdmin THEN 1 ELSE 2)
           ELSE \E ordered \in Ordered(rows, sorting.sort, sorting.order) :
                    RespondList(h, request, 0, query, 200, NULL,
                                Some(Listing(Range(ordered, from, to), paging.page,
                                             paging.perPage, Cardinality(rows))),
                                IF isAdmin THEN 1 ELSE 2)

\* POST /accounts
PostAccount(request, title, description, editors, viewers) ==
    LET h            == "POST /accounts"
        body         == Body(title, description, Undefined, NULL, editors, viewers)
        adminUser    == requireAdmin(request)
        titleText    == IF title = NULL THEN Text(0, 0) ELSE title[1]
        editorsClean == norm(ArrayOrEmpty(editors))
        viewersClean == norm(ArrayOrEmpty(viewers))
        newId        == nextAccountId + 1
        data         == AccountRow(newId, trim(titleText), DescriptionValue(description),
                                   adminUser.user[1].id)
        rows         == memberRows(newId, editorsClean, viewersClean)
    IN  /\ req = NoRequest
        /\ calls < MaxCalls
        /\ calls' = calls + 1
        /\ UNCHANGED <<tx, nextId, runs, sess, hist>>
        /\ IF adminUser.status # 200
              THEN /\ Respond(h, request, 0, 0, body, adminUser.status, adminUser.error,
                              NULL, 0, 0)
                   /\ UNCHANGED <<account, nextAccountId, member>>
           ELSE IF AccountTitleRefused(titleText)
              THEN /\ Respond(h, request, 0, 0, body, 400,
                              Some("Title must be 3-80 characters"), NULL, 0, 0)
                   /\ UNCHANGED <<account, nextAccountId, member>>
           ELSE IF overlap(editorsClean, viewersClean) # {}
              THEN /\ Respond(h, request, 0, 0, body, 400,
                              Some("A user cannot be both EDITOR and VIEWER"), NULL, 0, 0)
                   /\ UNCHANGED <<account, nextAccountId, member>>
           ELSE /\ newId \in Accounts
                /\ account' = account \cup {data}
                /\ nextAccountId' = newId
                /\ member' = member \cup rows
                /\ Respond(h, request, newId, 0, body, 200, NULL, Some(data),
                           IF rows = {} THEN 1 ELSE 2, 0)

\* the patch of PATCH /accounts/{id}: title when the body has a string title,
\* description when the body has the key
PatchedAccount(row, title, description) ==
    [row EXCEPT !.title = IF title = NULL THEN @ ELSE trim(title[1]),
                !.description = IF description = NULL THEN @ ELSE description[1]]

\* the account's membership rows after "Replace memberships"
ReplacedMembers(rows, id, editors, viewers) ==
    {m \in rows : m.account_id # id}
        \cup memberRows(id, norm(ArrayOrEmpty(editors)), norm(ArrayOrEmpty(viewers)))

\* PATCH /accounts/{id}
PatchAccount(request, id, title, description, editors, viewers) ==
    LET h            == "PATCH /accounts/{id}"
        body         == Body(title, description, Undefined, NULL, editors, viewers)
        adminUser    == requireAdmin(request)
        existing     == AccountById(account, id)
        data         == PatchedAccount(existing[1], title, description)
        editorsClean == norm(ArrayOrEmpty(editors))
        viewersClean == norm(ArrayOrEmpty(viewers))
    IN  /\ req = NoRequest
        /\ calls < MaxCalls
        /\ calls' = calls + 1
        /\ UNCHANGED <<tx, nextId, runs, sess, nextAccountId, hist>>
        /\ IF adminUser.status # 200
              THEN /\ Respond(h, request, id, 0, body, adminUser.status, adminUser.error,
                              NULL, 0, 0)
                   /\ UNCHANGED <<account, member>>
           ELSE IF ~IsDigits(id)
              THEN /\ Respond(h, request, id, 0, body, 400, Some("Invalid id"), NULL, 0, 0)
                   /\ UNCHANGED <<account, member>>
           ELSE IF title # NULL /\ AccountTitleRefused(title[1])
              THEN /\ Respond(h, request, id, 0, body, 400,
                              Some("Title must be 3-80 characters"), NULL, 0, 0)
                   /\ UNCHANGED <<account, member>>
           ELSE IF title = NULL /\ description = NULL
              THEN /\ Respond(h, request, id, 0, body, 400,
                              Some("No changes provided"), NULL, 0, 0)
                   /\ UNCHANGED <<account, member>>
           ELSE IF existing = NULL
              THEN /\ Respond(h, request, id, 0, body, 500, Some("no rows returned"),
                              NULL, 1, 0)
                   /\ UNCHANGED <<account, member>>
           ELSE /\ account' = (account \ {existing[1]}) \cup {data}
                /\ IF overlap(editorsClean, viewersClean) # {}
                      THEN /\ Respond(h, request, id, 0, body, 400,
                                      Some("A user cannot be both EDITOR and VIEWER"),
                                      NULL, 1, 0)
                           /\ UNCHANGED member
                      ELSE /\ member' = ReplacedMembers(member, id, editors, viewers)
                           /\ Respond(h, request, id, 0, body, 200, NULL, Some(data),
                                      IF editorsClean \cup viewersClean = {} THEN 2 ELSE 3,
                                      0)

\* the rows that refer to an account: the store refuses to delete an account
\* while there are any ("Cannot delete account with related records")
RelatedRecords(id) ==
    {r \in tx : r.account_id = id} \cup {m \in member : m.account_id = id}

\* from("account").delete().eq("id", id): no error, or the store's message
DeleteAccountError(id) ==
    IF RelatedRecords(id) # {}
       THEN Some("update or delete on table violates foreign key constraint")
       ELSE NULL

\* /violat/i.test(error.message) || /constraint/i.test(error.message)
isConstraint_Never(message) == FALSE

isConstraint(message) ==
    message \in {"update or delete on table violates foreign key constraint"}

\* DELETE /accounts/{id}
DeleteAccount(request, id) ==
    LET h         == "DELETE /accounts/{id}"
        adminUser == requireAdmin(request)
        error     == DeleteAccountError(id)
    IN  /\ req = NoRequest
        /\ calls < MaxCalls
        /\ calls' = calls + 1
        /\ UNCHANGED <<tx, nextId, runs, sess, nextAccountId, member, hist>>
        /\ IF adminUser.status # 200
              THEN /\ Respond(h, request, id, 0, NoBody, adminUser.status,
                              adminUser.error, NULL, 0, 0)
                   /\ UNCHANGED account
           ELSE IF ~IsDigits(id)
              THEN /\ Respond(h, request, id, 0, NoBody, 400, Some("Invalid id"),
                              NULL, 0, 0)
                   /\ UNCHANGED account
           ELSE IF error # NULL
              THEN /\ IF isConstraint(error[1])
                         THEN Respond(h, request, id, 0, NoBody, 409,
                                      Some("Cannot delete account with related records"),
                                      NULL, 1, 0)
                         ELSE Respond(h, request, id, 0, NoBody, 500, error, NULL, 1, 0)
                   /\ UNCHANGED account
           ELSE /\ account' = {a \in account : a.id # id}
                /\ Respond(h, request, id, 0, NoBody, 200, NULL, NULL, 1, 0)

\* the response has been sent and the handler's invocation is over
ResponseSent ==
    /\ req # NoRequest
    /\ req' = NoRequest
    /\ res' = NoAnswer
    /\ UNCHANGED <<Tables, runs, calls, sess, hist>>

(***************************************************************************)
(* Runs of the route handlers                                              *)
(***************************************************************************)
UserById(id) == CHOOSE u \in Users : u.id = id

\* a request with the valid token of user u / a request with no header
RequestOf(u) == [authorization |-> Header("Bearer ", TokenOf(u)), idp |-> IdpUser(u)]
Anonymous == [authorization |-> NULL, idp |-> IdpNoUser]

Callers == {RequestOf(UserById(1)), RequestOf(UserById(2)), Anonymous}
\* the caller of the runs that vary the body: the admin
BodyCallers == {RequestOf(UserById(1))}

Descriptions == {NULL, Some(Some("note"))}
TxTitles == {NULL, Some(Text(2, 1)), Some(Text(3, 1)), Some(Text(121, 0))}
PatchTitles == {NULL, Some(Text(2, 1)), Some(Text(3, 0))}
BodyAmounts == {Undefined, JsonNull, NotANumber, Num(0), Num(50)}
PatchAmounts == {Undefined, JsonNull, NotANumber, Num(50)}
BodyTimes == {NULL, Some(1), Some(2), Some(BadTime)}
PatchTimes == {NULL, Some(2), Some(BadTime)}

\* the path parameters <<id, txId>> of the transaction routes
TxPaths == {<<1, i>> : i \in TxIds} \cup {<<BadId, 1>>, <<1, BadId>>}

NextTransactions ==
    \/ \E rq \in Callers, a \in LedgerAccounts \cup {BadId} : GetTransactions(rq, a)
    \/ \E rq \in BodyCallers, a \in LedgerAccounts \cup {BadId}, title \in TxTitles,
          amount \in BodyAmounts, time \in BodyTimes :
          PostTransaction(rq, a, title, NULL, amount, time, 2)
    \/ \E rq \in BodyCallers, path \in TxPaths, title \in PatchTitles,
          d \in {NULL, Some(NULL)}, amount \in PatchAmounts, time \in PatchTimes :
          PatchTransaction(rq, path[1], path[2], title, d, amount, time)
    \/ \E rq \in Callers, path \in TxPaths : DeleteTransaction(rq, path[1], path[2])
    \/ ResponseSent

\* the transaction routes called one at a time with every kind of body
SpecTransactions == Init /\ [][NextTransactions]_vars

AccountTitles == {NULL, Some(Text(2, 1)), Some(Text(3, 1)), Some(Text(81, 0))}
MemberLists == {NULL, Some(<<>>), Some(<<2>>), Some(<<3, 2>>), Some(<<0, 2, 2>>)}

NextAccounts ==
    \/ \E rq \in Callers, a \in Accounts \cup {BadId} : GetAccount(rq, a)
    \/ \E rq \in BodyCallers, title \in AccountTitles, d \in Descriptions,
          editors \in MemberLists, viewers \in MemberLists :
          PostAccount(rq, title, d, editors, viewers)
    \/ \E rq \in BodyCallers, a \in Accounts \cup {BadId}, title \in AccountTitles,
          d \in Descriptions, editors \in MemberLists, viewers \in MemberLists :
          PatchAccount(rq, a, title, d, editors, viewers)
    \/ \E rq \in Callers, a \in Accounts \cup {BadId} : DeleteAccount(rq, a)
    \/ ResponseSent

\* the account routes called one at a time with every kind of body
SpecAccounts == Init /\ [][NextAccounts]_vars

\* page and perPage as the query string gives them: absent, a text that is no
\* number, 0, a negative number, numbers within the limits and beyond them
PageParams == {NULL, Some(NotANumber), Some(Num(0)), Some(Num(-1)), Some(Num(1)),
               Some(Num(2)), Some(Num(3))}
PerPageParams == {NULL, Some(NotANumber), Some(Num(0)), Some(Num(-5)), Some(Num(1)),
                  Some(Num(2)), Some(Num(101))}
ListCallers == {RequestOf(UserById(1)), RequestOf(UserById(2)), RequestOf(UserById(3))}

NextLists ==
    \/ \E rq \in ListCallers, p \in PageParams, n \in PerPageParams,
          c \in {NULL, Some("id"), Some("balance")}, o \in {NULL, Some("DESC")} : GetAccounts(rq, Query(p, n, c, o))
    \/ \E rq \in ListCallers, p \in PageParams, n \in PerPageParams :
          GetTransactionsPage(rq, 1, Query(p, n, NULL, NULL))
    \/ \E rq \in BodyCallers, editors \in {NULL, Some(<<2>>)} :
          PostAccount(rq, Some(Text(3, 0)), NULL, editors, NULL)
    \/ \E rq \in BodyCallers, time \in {Some(1), Some(2)} :
          PostTransaction(rq, 1, Some(Text(3, 0)), NULL, Num(50), time, 2)
    \/ ResponseSent

\* the two list routes called with every kind of query string, on the accounts
\* and transactions an admin has created
SpecLists == Init /\ [][NextLists]_vars

\* what a PATCH body can say of each field: nothing, null, a value the handler
\* refuses, a value it takes
PatchBodyTitles == {NULL, Some(Text(120, 1)), Some(Text(121, 0))}
PatchBodyAmounts == {Undefined, JsonNull, Num(0), Num(-30)}

NextPatch ==
    \/ \E rq \in BodyCallers, d \in {NULL, Some(Some("memo"))}, time \in {Some(1), Some(2)} :
          PostTransaction(rq, 1, Some(Text(3, 0)), d, Num(50), time, 2)
    \/ \E rq \in BodyCallers, i \in TxIds, title \in PatchBodyTitles,
          d \in {NULL, Some(NULL), Some(Some("note"))}, amount \in PatchBodyAmounts,
          time \in {NULL, Some(1)} : PatchTransaction(rq, 1, i, title, d, amount, time)
    \/ ResponseSent

\* transactions created with and without a description, then updated with every
\* kind of body
SpecPatch == Init /\ [][NextPatch]_vars

GateTitle == Some(Text(3, 0))
GateLists == {NULL, Some(<<2>>)}

\* the admin, a user the runs make a member, a user they never do, a request
\* with no header and one whose token the identity provider refuses
GateCallers ==
    {RequestOf(UserById(1)), RequestOf(UserById(2)), RequestOf(UserById(3)), Anonymous,
     [authorization |-> Header("Bearer ", "t2"), idp |-> IdpError]}

NextGates ==
    \/ \E rq \in GateCallers, a \in Accounts : GetTransactions(rq, a)
    \/ \E rq \in GateCallers, a \in Accounts :
          PostTransaction(rq, a, GateTitle, NULL, Num(50), NULL, 1)
    \/ \E rq \in GateCallers, a \in Accounts :
          PatchTransaction(rq, a, 1, NULL, NULL, Num(-30), NULL)
    \/ \E rq \in GateCallers, a \in Accounts : DeleteTransaction(rq, a, 1)
    \/ \E rq \in GateCallers, a \in Accounts : GetAccount(rq, a)
    \/ \E rq \in GateCallers, editors \in GateLists, viewers \in GateLists :
          PostAccount(rq, GateTitle, NULL, editors, viewers)
    \/ \E rq \in GateCallers, a \in Accounts, editors \in GateLists,
          viewers \in GateLists : PatchAccount(rq, a, GateTitle, NULL, editors, viewers)
    \/ \E rq \in GateCallers, a \in Accounts : DeleteAccount(rq, a)
    \/ ResponseSent

\* every route called one at a time by every kind of caller
SpecGates == Init /\ [][NextGates]_vars

NextIdentity ==
    \/ \E rq \in Requests : GetTransactions(rq, 1)
    \/ \E rq \in Requests : PostTransaction(rq, 1, GateTitle, NULL, Num(50), NULL, 1)
    \/ \E rq \in Requests : PatchTransaction(rq, 1, 1, NULL, NULL, Num(-30), NULL)
    \/ \E rq \in Requests : DeleteTransaction(rq, 1, 1)
    \/ \E rq \in Requests : GetAccount(rq, 1)
    \/ \E rq \in Requests : PostAccount(rq, GateTitle, NULL, Some(<<2>>), NULL)
    \/ \E rq \in Requests : PatchAccount(rq, 1, GateTitle, NULL, NULL, Some(<<2>>))
    \/ \E rq \in Requests : DeleteAccount(rq, 1)
    \/ ResponseSent

\* every route called with every kind of Authorization header and every answer
\* of the identity provider
SpecIdentity == Init /\ [][NextIdentity]_vars

(***************************************************************************)
(* The procedures called from two store sessions at once.  Each call is    *)
(* one store transaction at the store's default isolation (read            *)
(* committed): every statement reads the rows committed when it starts     *)
(* plus the session's own changes; a row changed by a session stays locked *)
(* until that session commits or rolls back; an UPDATE that meets a row    *)
(* changed under it writes to the row's newest committed version, with the *)
(* values its FROM subquery computed from the statement's own snapshot.    *)
(* The procedures take no lock of their own (part_000 has no "for update", *)
(* no advisory lock, no "lock table").                                     *)
(***************************************************************************)
Other(p) == CHOOSE q \in Sessions : q # p

Ids(rows) == {r.id : r \in rows}

\* what a statement of session p reads
View(p) ==
    {r \in tx : r.id \notin Ids(sess[p].writes) \cup sess[p].dels} \cup sess[p].writes

\* committed rows that session p has changed or deleted and not yet committed
LockedBy(p) == (Ids(sess[p].writes) \cup sess[p].dels) \cap Ids(tx)

\* insert ... values (..., 0) returning * into v_row
BeginCreate(p, p_account_id, p_amount, p_transaction_date_time) ==
    /\ sess[p].pc = "idle"
    /\ nextId < MaxTx
    /\ calls < MaxCalls
    /\ calls' = calls + 1
    /\ LET id == nextId + 1
       IN  /\ nextId' = id
           /\ sess' = [sess EXCEPT ![p] =
                  [pc |-> "mutated", op |-> "create", account_id |-> p_account_id,
                   tx_id |-> id,
                   writes |-> {[id |-> id, account_id |-> p_account_id,
                                amount |-> p_amount,
                                transaction_date_time |-> p_transaction_date_time,
                                balance |-> 0]},
                   dels |-> {}, s |-> <<>>]]
    /\ UNCHANGED <<tx, res, runs, routeVars>>

\* update transaction set ... where id = p_tx_id and account_id = p_account_id;
\* if not found then raise exception
BeginUpdate(p, p_account_id, p_tx_id, p_amount, p_transaction_date_time) ==
    LET hit == UpdateTargets(tx, p_account_id, p_tx_id)
    IN  /\ sess[p].pc = "idle"
        /\ calls < MaxCalls
        /\ calls' = calls + 1
        /\ Ids(hit) \cap LockedBy(Other(p)) = {}
        /\ UNCHANGED <<tx, nextId, runs, routeVars>>
        /\ IF hit = {}
              THEN /\ res' = Answer("update", p_account_id, p_tx_id, 500,
                                    Some("Transaction not found"), NULL)
                   /\ UNCHANGED sess
              ELSE /\ sess' = [sess EXCEPT ![p] =
                          [pc |-> "mutated", op |-> "update",
                           account_id |-> p_account_id, tx_id |-> p_tx_id,
                           writes |-> {[r EXCEPT
                               !.amount = Coalesce(p_amount, r.amount),
                               !.transaction_date_time =
                                   Coalesce(p_transaction_date_time,
                                            r.transaction_date_time)] : r \in hit},
                           dels |-> {}, s |-> <<>>]]
                   /\ UNCHANGED res

\* delete from transaction where id = p_tx_id and account_id = p_account_id
BeginDelete(p, p_account_id, p_tx_id) ==
    LET hit == DeleteTargets(tx, p_account_id, p_tx_id)
    IN  /\ sess[p].pc = "idle"
        /\ calls < MaxCalls
        /\ calls' = calls + 1
        /\ Ids(hit) \cap LockedBy(Other(p)) = {}
        /\ sess' = [sess EXCEPT ![p] =
               [pc |-> "mutated", op |-> "delete", account_id |-> p_account_id,
                tx_id |-> p_tx_id, writes |-> {}, dels |-> Ids(hit), s |-> <<>>]]
        /\ UNCHANGED <<tx, nextId, res, runs, routeVars>>

\* perform fn_transaction_recompute: the statement starts and its subquery s is
\* computed from the statement's snapshot
RecomputeScan(p) ==
    /\ sess[p].pc = "mutated"
    /\ sess' = [sess EXCEPT ![p].pc = "scanned",
                            ![p].s = WindowRunning(View(p), sess[p].account_id)]
    /\ UNCHANGED <<tx, nextId, res, runs, calls, routeVars>>

\* ... and writes balance = s.running to the rows t.id = s.id, once none of them
\* is locked by the other session; a row committed as deleted meanwhile is skipped
RecomputeWrite(p) ==
    LET s       == sess[p].s
        current == {r \in View(p) : r.id \in DOMAIN s}
    IN  /\ sess[p].pc = "scanned"
        /\ DOMAIN s \cap LockedBy(Other(p)) = {}
        /\ sess' = [sess EXCEPT
               ![p].pc = "recomputed",
               ![p].writes = {r \in sess[p].writes : r.id \notin DOMAIN s}
                                \cup {[r EXCEPT !.balance = s[r.id]] : r \in current}]
        /\ UNCHANGED <<tx, nextId, res, runs, calls, routeVars>>

\* select * into v_row ...; return; the store transaction commits
Commit(p) ==
    LET after == View(p)
        id    == sess[p].tx_id
    IN  /\ sess[p].pc = "recomputed"
        /\ tx' = after
        /\ res' = Answer(sess[p].op, sess[p].account_id, id, 200, NULL,
                         IF sess[p].op = "delete" THEN NULL
                                                  ELSE Some(RowById(after, id)))
        /\ sess' = [sess EXCEPT ![p] = Idle]
        /\ UNCHANGED <<nextId, runs, calls, routeVars>>

\* the recompute statement raises (deadlock victim, statement timeout,
\* cancellation): the exception leaves the function and the store transaction,
\* the mutation included, is rolled back
RecomputeFails(p) ==
    /\ sess[p].pc \in {"mutated", "scanned"}
    /\ res' = Answer(sess[p].op, sess[p].account_id, sess[p].tx_id, 500,
                     Some("recompute failed"), NULL)
    /\ sess' = [sess EXCEPT ![p] = Idle]
    /\ UNCHANGED <<tx, nextId, runs, calls, routeVars>>

NextConcurrent ==
    \E p \in Sessions :
        \/ \E a \in LedgerAccounts, m \in Amounts, t \in Times : BeginCreate(p, a, m, t)
        \/ \E a \in LedgerAccounts, i \in TxIds,
              m \in Nullable(Amounts), t \in Nullable(Times) : BeginUpdate(p, a, i, m, t)
        \/ \E a \in LedgerAccounts, i \in TxIds : BeginDelete(p, a, i)
        \/ RecomputeScan(p)
        \/ RecomputeWrite(p)
        \/ Commit(p)
        \/ RecomputeFails(p)

\* two sessions calling the procedures on one account
SpecConcurrent == Init /\ [][NextConcurrent]_vars

(***************************************************************************)
(* PATCH /accounts/{id} from two requests at once.  The handler awaits     *)
(* three store calls in turn (update account, delete from account-member,  *)
(* insert into account-member); each is a statement of its own, committed  *)
(* when it returns, and the handler opens no transaction around them, so   *)
(* the statements of another request may run between any two of them.      *)
(***************************************************************************)
\* insert into "account-member": the table takes every row it is given; no
\* key or unique constraint on (account_id, uid) turns a second row for the
\* pair away
InsertMemberRows(rows, new) == rows \cup new

\* the handler up to and including "update account ... single()" and the
\* overlap check that follows it
BeginPatchAccount(p, request, id, title, description, editors, viewers) ==
    LET h            == "PATCH /accounts/{id}"
        body         == Body(title, description, Undefined, NULL, editors, viewers)
        adminUser    == requireAdmin(request)
        existing     == AccountById(account, id)
        data         == PatchedAccount(existing[1], title, description)
        editorsClean == norm(ArrayOrEmpty(editors))
        viewersClean == norm(ArrayOrEmpty(viewers))
    IN  /\ sess[p].pc = "idle"
        /\ calls < MaxCalls
        /\ calls' = calls + 1
        /\ UNCHANGED <<tx, nextId, runs, nextAccountId, member, hist>>
        /\ IF adminUser.status # 200
              THEN /\ Respond(h, request, id, 0, body, adminUser.status, adminUser.error,
                              NULL, 0, 0)
                   /\ UNCHANGED <<account, sess>>
           ELSE IF ~IsDigits(id)
              THEN /\ Respond(h, request, id, 0, body, 400, Some("Invalid id"), NULL, 0, 0)
                   /\ UNCHANGED <<account, sess>>
           ELSE IF title # NULL /\ AccountTitleRefused(title[1])
              THEN /\ Respond(h, request, id, 0, body, 400,
                              Some("Title must be 3-80 characters"), NULL, 0, 0)
                   /\ UNCHANGED <<account, sess>>
           ELSE IF title = NULL /\ description = NULL
              THEN /\ Respond(h, request, id, 0, body, 400,
                              Some("No changes provided"), NULL, 0, 0)
                   /\ UNCHANGED <<account, sess>>
           ELSE IF existing = NULL
              THEN /\ Respond(h, request, id, 0, body, 500, Some("no rows returned"),
                              NULL, 1, 0)
                   /\ UNCHANGED <<account, sess>>
           ELSE /\ account' = (account \ {existing[1]}) \cup {data}
                /\ IF overlap(editorsClean, viewersClean) # {}
                      THEN /\ Respond(h, request, id, 0, body, 400,
                                      Some("A user cannot be both EDITOR and VIEWER"),
                                      NULL, 1, 0)
                           /\ UNCHANGED sess
                      ELSE /\ sess' = [sess EXCEPT ![p] =
                                  [pc |-> "account updated", op |-> h,
                                   account_id |-> id, tx_id |-> 0,
                                   writes |-> memberRows(id, editorsClean, viewersClean),
                                   dels |-> {},
                                   s |-> <<request, body, data>>]]
                           /\ UNCHANGED <<res, req>>

\* delete from "account-member" where account_id = id; with no row to insert
\* the handler answers here
DeleteMemberRows(p) ==
    LET h == sess[p].op
        s == sess[p].s
    IN  /\ sess[p].pc = "account updated"
        /\ member' = {m \in member : m.account_id # sess[p].account_id}
        /\ IF sess[p].writes = {}
              THEN /\ Respond(h, s[1], sess[p].account_id, 0, s[2], 200, NULL,
                              Some(s[3]), 2, 0)
                   /\ sess' = [sess EXCEPT ![p] = Idle]
              ELSE /\ sess' = [sess EXCEPT ![p].pc = "members deleted"]
                   /\ UNCHANGED <<res, req>>
        /\ UNCHANGED <<tx, nextId, runs, calls, account, nextAccountId, hist>>

\* insert into "account-member" the rows of the request; the handler answers
AddMemberRows(p) ==
    LET h == sess[p].op
        s == sess[p].s
    IN  /\ sess[p].pc = "members deleted"
        /\ member' = InsertMemberRows(member, sess[p].writes)
        /\ Respond(h, s[1], sess[p].account_id, 0, s[2], 200, NULL, Some(s[3]), 3, 0)
        /\ sess' = [sess EXCEPT ![p] = Idle]
        /\ UNCHANGED <<tx, nextId, runs, calls, account, nextAccountId, hist>>


\* account updates of two requests at once, on accounts an admin has created
NextAccountConcurrent ==
    \/ \E r \in BodyCallers, e \in GateLists, v \in {NULL} :
          PostAccount(r, GateTitle, NULL, e, v)
    \/ \E p \in Sessions :
          \/ \E r \in {RequestOf(UserById(1)), RequestOf(UserById(2))}, e \in {NULL, Some(<<2>>), Some(<<3>>)}, v \in {NULL, Some(<<2>>), Some(<<3>>)} :
                BeginPatchAccount(p, r, 1, GateTitle, NULL, e, v)
          \/ DeleteMemberRows(p)
          \/ AddMemberRows(p)
    \/ ResponseSent

SpecAccountConcurrent == Init /\ [][NextAccountConcurrent]_vars

(***************************************************************************)
(* The incremental handlers from two requests at once.  Each handler       *)
(* awaits its store calls in turn: POST reads the latest row and then      *)
(* inserts; PATCH and DELETE read the latest row, PATCH then reads the     *)
(* previous row when the body has an amount, and then they write.  Every   *)
(* call is a statement of its own; the handlers open no transaction and    *)
(* take no lock, so another request's statement may run between two.       *)
(***************************************************************************)
\* POST: the read of the latest row, the back-date check and newBalance
PostReadLatest(p, account_id, amount, t) ==
    LET latest == Latest(tx, account_id)
    IN  /\ sess[p].pc = "idle"
        /\ calls < MaxCalls
        /\ calls' = calls + 1
        /\ UNCHANGED <<tx, nextId, runs, routeVars>>
        /\ IF latest # NULL /\ t < latest[1].transaction_date_time
              THEN /\ res' = Answer("POST", account_id, 0, 400,
                                    Some("Cannot create back-dated transaction"), NULL)
                   /\ UNCHANGED sess
              ELSE /\ sess' = [sess EXCEPT ![p] =
                          [pc |-> "latest read", op |-> "POST",
                           account_id |-> account_id, tx_id |-> 0, writes |-> {},
                           dels |-> {},
                           s |-> [amount |-> amount, transaction_date_time |-> t,
                                  balance |-> BalanceOrZero(latest) + amount]]]
                   /\ UNCHANGED res

\* POST: the insert, with the balance computed from the row read before
PostInsert(p) ==
    LET id  == nextId + 1
        row == [id |-> id, account_id |-> sess[p].account_id,
                amount |-> sess[p].s.amount,
                transaction_date_time |-> sess[p].s.transaction_date_time,
                balance |-> sess[p].s.balance]
    IN  /\ sess[p].pc = "latest read"
        /\ sess[p].op = "POST"
        /\ nextId < MaxTx
        /\ tx' = tx \cup {row}
        /\ nextId' = id
        /\ res' = Answer("POST", sess[p].account_id, id, 200, NULL, Some(row))
        /\ sess' = [sess EXCEPT ![p] = Idle]
        /\ UNCHANGED <<runs, calls, routeVars>>

\* two POSTs at once
NextPostRace ==
    \E p \in Sessions :
        \/ \E a \in LedgerAccounts, m \in Amounts, t \in Times : PostReadLatest(p, a, m, t)
        \/ PostInsert(p)

SpecPostRace == Init /\ [][NextPostRace]_vars

\* PATCH and DELETE: the read of the latest row and the latest-only check
CheckLatest(p, op, account_id, txId, amount, time) ==
    LET latest == Latest(tx, account_id)
    IN  /\ sess[p].pc = "idle"
        /\ calls < MaxCalls
        /\ calls' = calls + 1
        /\ UNCHANGED <<tx, nextId, runs, routeVars>>
        /\ IF latest = NULL
              THEN /\ res' = Answer(op, account_id, txId, 500,
                                    Some("no rows returned"), NULL)
                   /\ UNCHANGED sess
           ELSE IF latest[1].id # txId
              THEN /\ res' = Answer(op, account_id, txId, 409,
                                    Some("Only latest transaction can be modified"), NULL)
                   /\ UNCHANGED sess
           ELSE /\ sess' = [sess EXCEPT ![p] =
                       [pc |-> "latest checked", op |-> op, account_id |-> account_id,
                        tx_id |-> txId, writes |-> {}, dels |-> {},
                        s |-> [amount |-> amount, transaction_date_time |-> time,
                               latest |-> latest[1], balance |-> NULL]]]
                /\ UNCHANGED res

\* PATCH with an amount: the read of the previous row and newBalance
PatchReadPrevious(p) ==
    LET s            == sess[p].s
        effectiveIso == Coalesce(s.transaction_date_time, s.latest.transaction_date_time)
        prev         == PreviousBefore(tx, sess[p].account_id, effectiveIso)
    IN  /\ sess[p].pc = "latest checked"
        /\ sess[p].op = "PATCH"
        /\ s.amount # NULL
        /\ sess' = [sess EXCEPT ![p].pc = "previous read",
                                ![p].s.balance = Some(BalanceOrZero(prev) + s.amount[1])]
        /\ UNCHANGED <<tx, nextId, res, runs, calls, routeVars>>

\* PATCH: update ... .eq("id", txId).eq("account_id", id).select().single()
PatchWrite(p) ==
    LET s       == sess[p].s
        hit     == {r \in tx : r.id = sess[p].tx_id /\ r.account_id = sess[p].account_id}
        patched == {[r EXCEPT !.transaction_date_time = Coalesce(s.transaction_date_time, @),
                              !.amount = Coalesce(s.amount, @),
                              !.balance = Coalesce(s.balance, @)] : r \in hit}
    IN  /\ sess[p].op = "PATCH"
        /\ \/ sess[p].pc = "previous read"
           \/ sess[p].pc = "latest checked" /\ s.amount = NULL /\ s.transaction_date_time # NULL
        /\ tx' = (tx \ hit) \cup patched
        /\ res' = IF hit = {}
                     THEN Answer("PATCH", sess[p].account_id, sess[p].tx_id, 500,
                                 Some("no rows returned"), NULL)
                     ELSE Answer("PATCH", sess[p].account_id, sess[p].tx_id, 200, NULL,
                                 Some(CHOOSE r \in patched : TRUE))
        /\ sess' = [sess EXCEPT ![p] = Idle]
        /\ UNCHANGED <<nextId, runs, calls, routeVars>>

\* PATCH whose body changes nothing: 400 after the latest-only check
PatchNoChanges(p) ==
    /\ sess[p].op = "PATCH"
    /\ sess[p].pc = "latest checked"
    /\ sess[p].s.amount = NULL /\ sess[p].s.transaction_date_time = NULL
    /\ res' = Answer("PATCH", sess[p].account_id, sess[p].tx_id, 400,
                     Some("No changes provided"), NULL)
    /\ sess' = [sess EXCEPT ![p] = Idle]
    /\ UNCHANGED <<tx, nextId, runs, calls, routeVars>>

\* DELETE: delete ... .eq("id", txId).eq("account_id", id)
DeleteWrite(p) ==
    /\ sess[p].op = "DELETE"
    /\ sess[p].pc = "latest checked"
    /\ tx' = {r \in tx : ~(r.id = sess[p].tx_id /\ r.account_id = sess[p].account_id)}
    /\ res' = Answer("DELETE", sess[p].account_id, sess[p].tx_id, 200, NULL, NULL)
    /\ sess' = [sess EXCEPT ![p] = Idle]
    /\ UNCHANGED <<nextId, runs, calls, routeVars>>

\* a PATCH or DELETE at once with a POST or with another PATCH or DELETE
NextLatestRace ==
    \E p \in Sessions :
        \/ \E a \in LedgerAccounts, t \in Times : PostReadLatest(p, a, 50, t)
        \/ PostInsert(p)
        \/ \E a \in LedgerAccounts, i \in TxIds, m \in Nullable({-30}),
              t \in Nullable(Times) : CheckLatest(p, "PATCH", a, i, m, t)
        \/ \E a \in LedgerAccounts, i \in TxIds : CheckLatest(p, "DELETE", a, i, NULL, NULL)
        \/ PatchReadPrevious(p)
        \/ PatchWrite(p)
        \/ PatchNoChanges(p)
        \/ DeleteWrite(p)

SpecLatestRace == Init /\ [][NextLatestRace]_vars

\* any table of up to MaxTx rows whose balance column holds anything
StaleBalances == {0, 50, 999}
StaleColumns ==
    [account_id : Accounts, amount : Amounts, transaction_date_time : Times,
     balance : StaleBalances]
NoRow == [account_id |-> 0, amount |-> 0, transaction_date_time |-> 0, balance |-> 0]

InitStale ==
    /\ \E f \in [TxIds -> StaleColumns \cup {NoRow}] :
          tx = {[id |-> i, account_id |-> f[i].account_id, amount |-> f[i].amount,
                 transaction_date_time |-> f[i].transaction_date_time,
                 balance |-> f[i].balance] : i \in {j \in TxIds : f[j] # NoRow}}
    /\ nextId = MaxTx
    /\ res = NoAnswer
    /\ runs = 0
    /\ calls = 0
    /\ sess = [p \in Sessions |-> Idle]
    /\ account = {}
    /\ nextAccountId = 0
    /\ member = {}
    /\ req = NoRequest
    /\ hist = NoHistory

NextRecompute == \E a \in Accounts : Recompute(a)

\* fn_transaction_recompute applied to tables with arbitrary balance columns
SpecRecompute == InitStale /\ [][NextRecompute]_vars

\* tables of two accounts whose balance columns hold anything, with one id
\* left for a create
FrameColumns ==
    [account_id : Accounts, amount : {50}, transaction_date_time : {1},
     balance : {999}]

InitFrame ==
    /\ \E f \in [1..(MaxTx - 1) -> FrameColumns \cup {NoRow}] :
          tx = {[id |-> i, account_id |-> f[i].account_id, amount |-> f[i].amount,
                 transaction_date_time |-> f[i].transaction_date_time,
                 balance |-> f[i].balance] : i \in {j \in 1..(MaxTx - 1) : f[j] # NoRow}}
    /\ nextId = MaxTx - 1
    /\ res = NoAnswer
    /\ runs = 0
    /\ calls = 0
    /\ sess = [p \in Sessions |-> Idle]
    /\ account = {}
    /\ nextAccountId = 0
    /\ member = {}
    /\ req = NoRequest
    /\ hist = NoHistory

NextFrame ==
    \/ \E a \in Accounts : CreateAndRecompute(a, 50, 2)
    \/ \E a \in Accounts, i \in TxIds, m \in Nullable({-30}) :
          UpdateAndRecompute(a, i, m, NULL)
    \/ \E a \in Accounts, i \in TxIds : DeleteAndRecompute(a, i)
    \/ \E a \in Accounts : Recompute(a)

\* the procedures called on one account while the rows of the other hold
\* arbitrary balances
SpecFrame == InitFrame /\ [][NextFrame]_vars

(***************************************************************************)
(* The core invariant, stated independently of the window computation      *)
(***************************************************************************)
RECURSIVE SumAmount(_)
SumAmount(S) ==
    IF S = {} THEN 0
    ELSE LET r == CHOOSE x \in S : TRUE IN r.amount + SumAmount(S \ {r})

\* q is at or before r in ascending (transaction_date_time, id)
AtOrBefore(q, r) ==
    \/ q.transaction_date_time < r.transaction_date_time
    \/ q.transaction_date_time = r.transaction_date_time /\ q.id <= r.id

StrictlyAfter(q, r) == ~AtOrBefore(q, r)

PrefixSum(rows, r) ==
    SumAmount({q \in rows : q.account_id = r.account_id /\ AtOrBefore(q, r)})

BalancesArePrefixSums(rows) == \A r \in rows : r.balance = PrefixSum(rows, r)

BalanceOf(rows, id) == (CHOOSE r \in rows : r.id = id).balance

Row(id, acc, amt, time, bal) ==
    [id |-> id, account_id |-> acc, amount |-> amt,
     transaction_date_time |-> time, balance |-> bal]

\* C1: after any one-at-a-time sequence of create/update/delete procedure calls
\* from an empty table, every transaction's balance is the sum of the amounts of
\* its account's transactions at or before it in (transaction_date_time, id).
C1_BalanceIsPrefixSum == BalancesArePrefixSums(tx)

\* a backdated row (largest id, earliest instant) ahead of two rows that tie on
\* the instant and are told apart by id, all present at once
C1_Witness ==
    \E p \in tx, q \in tx, r \in tx :
        /\ p.account_id = q.account_id /\ q.account_id = r.account_id
        /\ q.id < r.id /\ r.id < p.id
        /\ q.transaction_date_time = r.transaction_date_time
        /\ p.transaction_date_time < q.transaction_date_time
        /\ r.balance = q.balance + r.amount
        /\ q.balance = p.balance + q.amount

\* C3: a create gives the new row, and the row handed back, its prefix sum, and
\* raises every row ordered after the new one by the new amount; T1 = 100 and
\* T2 = 70 become 150 and 120 when T0 (50, earlier) is inserted, T0 = 50.
C3_BackdatedCreate ==
    [][nextId' = nextId + 1 =>
        LET new == CHOOSE r \in tx' : r.id = nextId'
        IN  /\ new.balance = PrefixSum(tx', new)
            /\ res'.row = Some(new)
            /\ \A q \in tx :
                  (q.account_id = new.account_id /\ StrictlyAfter(q, new))
                      => BalanceOf(tx', q.id) = q.balance + new.amount
            /\ (/\ tx = {Row(1, 1, 100, 2, 100), Row(2, 1, -30, 3, 70)}
                /\ new.amount = 50 /\ new.account_id = 1
                /\ new.transaction_date_time = 1)
                    => tx' = {Row(nextId', 1, 50, 1, 50), Row(1, 1, 100, 2, 150),
                              Row(2, 1, -30, 3, 120)}]_vars

C3_Witness ==
    /\ tx = {Row(3, 1, 50, 1, 50), Row(1, 1, 100, 2, 150), Row(2, 1, -30, 3, 120)}
    /\ res.op = "create" /\ res.tx_id = 3
    /\ res.row = Some(Row(3, 1, 50, 1, 50))

\* C4: a delete lowers every row of the account ordered after the deleted one
\* by the deleted amount and leaves the rows before it as they were; deleting
\* T1 from T0 = 50, T1 = 150, T2 = 120 leaves T0 = 50, T2 = 20.
C4_DeleteShiftsLaterRows ==
    [][\A d \in tx :
        (\A r \in tx' : r.id # d.id) =>
            /\ \A q \in tx \ {d} :
                  q.account_id = d.account_id =>
                      BalanceOf(tx', q.id) =
                          IF StrictlyAfter(q, d) THEN q.balance - d.amount
                                                 ELSE q.balance
            /\ (tx = {Row(3, 1, 50, 1, 50), Row(1, 1, 100, 2, 150),
                      Row(2, 1, -30, 3, 120)} /\ d.id = 1)
                  => tx' = {Row(3, 1, 50, 1, 50), Row(2, 1, -30, 3, 20)}]_vars

C4_Witness ==
    /\ tx = {Row(3, 1, 50, 1, 50), Row(2, 1, -30, 3, 20)}
    /\ res.op = "delete" /\ res.tx_id = 1

\* C9: an update addressed to a tx_id that does not exist, or that belongs to
\* another account than p_account_id, fails with 'Transaction not found' and
\* leaves every row of every account as it was.
C9_UpdateNotFound ==
    [][(res'.op = "update"
            /\ ~\E r \in tx : r.id = res'.tx_id /\ r.account_id = res'.account_id)
        => (tx' = tx /\ res'.error = Some("Transaction not found"))]_vars

\* the update was refused although the id exists: it is a row of the other account
C9_Witness ==
    /\ res.op = "update" /\ res.error = Some("Transaction not found")
    /\ \E r \in tx : r.id = res.tx_id /\ r.account_id # res.account_id
    /\ \E r \in tx : r.account_id = res.account_id

\* C10: a delete of a tx_id that does not belong to the given account (or does
\* not exist) is answered with an error, not with success, and removes no row.
C10_DeleteRejected ==
    [][(res'.op = "delete"
            /\ ~\E r \in tx : r.id = res'.tx_id /\ r.account_id = res'.account_id)
        => (res'.error # NULL /\ res'.status # 200
                /\ {r.id : r \in tx'} = {r.id : r \in tx})]_vars

\* C2: whatever the balance column held before, once fn_transaction_recompute
\* has run for an account every row of that account has its prefix sum.
C2_RecomputeRestores ==
    res.op = "recompute" =>
        \A r \in tx : r.account_id = res.account_id => r.balance = PrefixSum(tx, r)

\* recompute has run on an account with a backdated row and a tie on the instant
C2_Witness ==
    /\ res.op = "recompute"
    /\ \E p \in tx, q \in tx, r \in tx :
        /\ p.account_id = res.account_id /\ q.account_id = res.account_id
        /\ r.account_id = res.account_id
        /\ q.id < r.id /\ r.id < p.id
        /\ q.transaction_date_time = r.transaction_date_time
        /\ p.transaction_date_time < q.transaction_date_time
        /\ p.amount # q.amount

\* C5: a second fn_transaction_recompute of the same account straight after the
\* first leaves every balance as the first call left it.
C5_RecomputeIdempotent ==
    [][(res.op = "recompute" /\ res'.op = "recompute"
            /\ res'.account_id = res.account_id) => tx' = tx]_vars

C5_Witness ==
    /\ runs >= 2
    /\ res.op = "recompute"
    /\ \E q \in tx, r \in tx :
        /\ q.account_id = res.account_id /\ r.account_id = res.account_id
        /\ q.id # r.id /\ r.balance = q.balance + r.amount

\* C8: after any one-at-a-time sequence of POSTs, PATCHes of the latest row and
\* DELETEs of the latest row through the incremental handlers, every remaining
\* row's balance is its prefix sum in (transaction_date_time, id).
C8_IncrementalKeepsInvariant == BalancesArePrefixSums(tx)

\* a recompute that fails undoes the call's row mutation: the committed table,
\* which is all another request can read, is as before the call
FailureRollsBack ==
    [][\A p \in Sessions :
        (sess[p].pc \in {"mutated", "scanned"} /\ sess'[p].pc = "idle")
            => (tx' = tx /\ res'.status = 500)]_vars

\* C6: the row mutation and the recompute of a procedure take effect as one
\* unit: a failed recompute rolls the mutation back, and no committed state (the
\* state other requests see) holds a mutation while the balances of the account
\* are not the prefix sums.
C6_MutationAndRecomputeAtomic ==
    [][/\ \A p \in Sessions :
            (sess[p].pc \in {"mutated", "scanned"} /\ sess'[p].pc = "idle")
                => (tx' = tx /\ res'.status = 500)
       /\ BalancesArePrefixSums(tx')]_vars

\* C7: when two procedure calls on the same account have run concurrently and
\* both have completed, every row of the account has its prefix sum.
C7_RacingCallsKeepInvariant ==
    (\A p \in Sessions : sess[p].pc = "idle") => BalancesArePrefixSums(tx)

(***************************************************************************)
(* The route handlers: validation of the request body                      *)
(***************************************************************************)
NotRefusedAtTheGate(answer) ==
    answer.error \notin {Some("Unauthorized"), Some("Forbidden"), Some("Invalid id")}

C12_CreateValidation ==
    [][(/\ req'.handler = "POST /accounts/{id}/transactions"
        /\ NotRefusedAtTheGate(res')
        /\ \/ req'.body.title = NULL
           \/ req'.body.title[1].len < 3
           \/ req'.body.title[1].len > 120
           \/ req'.body.amount.t # "number"
           \/ req'.body.amount.n = 0)
       => (res'.status = 400 /\ tx' = tx /\ nextId' = nextId)]_vars

(***************************************************************************)
(* The account routes: membership rows                                     *)
(***************************************************************************)
\* the user ids a membership list of a body names
Listed(list) ==
    IF list = NULL THEN {}
    ELSE {list[1][i] : i \in DOMAIN list[1]} \ {NotAUuid}

AccountExists(id) == \E a \in account : a.id = id

C15_MembershipsReplacedOnlyWithLists ==
    [][req'.handler = "PATCH /accounts/{id}" =>
        IF req'.body.editors = NULL /\ req'.body.viewers = NULL
           THEN member' = member
           ELSE res'.status = 200 =>
                   member' = {m \in member : m.account_id # req'.id}
                       \cup {[account_id |-> req'.id, uid |-> u, type |-> "EDITOR"] :
                                u \in Listed(req'.body.editors)}
                       \cup {[account_id |-> req'.id, uid |-> u, type |-> "VIEWER"] :
                                u \in Listed(req'.body.viewers)}]_vars

(***************************************************************************)
(* The authorization gates                                                 *)
(***************************************************************************)
\* the request carries "Bearer <token>" and the provider vouches for a user
ValidIdentity(r) ==
    /\ r.authorization # NULL
    /\ r.authorization[1].first7 = "Bearer "
    /\ r.authorization[1].rest # ""
    /\ ~r.idp.throws
    /\ ~r.idp.error
    /\ r.idp.user # NULL

CallerId(r) == r.idp.user[1].id

\* the one user whose email is on the allow-list (in another letter case)
IsAdminCaller(r) == ValidIdentity(r) /\ r.idp.user[1].email = Some("Admin@Ledger.io")
IsPlainCaller(r) == ValidIdentity(r) /\ ~IsAdminCaller(r)

TransactionRoutes ==
    {"GET /accounts/{id}/transactions", "POST /accounts/{id}/transactions"}
AdminRoutes ==
    {"PATCH /accounts/{id}/transactions/{txId}",
     "DELETE /accounts/{id}/transactions/{txId}",
     "GET /accounts/{id}", "PATCH /accounts/{id}", "DELETE /accounts/{id}",
     "POST /accounts"}
AccountScopedRoutes == TransactionRoutes \cup (AdminRoutes \ {"POST /accounts"})

HasMembership(uid, id) == \E m \in member : m.account_id = id /\ m.uid = uid
IsEditor(uid, id) ==
    \E m \in member : m.account_id = id /\ m.uid = uid /\ m.type = "EDITOR"

\* C16: an authenticated non-admin with no membership row for account A is
\* answered 403 on every endpoint scoped to A and no row of any table changes;
\* an authenticated admin is never answered 401 or 403 on these endpoints.
C16_NonMemberForbidden ==
    [][req'.handler \in AccountScopedRoutes =>
        /\ (IsPlainCaller(req') /\ ~HasMembership(CallerId(req'), req'.id))
              => (res'.status = 403 /\ UNCHANGED Tables)
        /\ IsAdminCaller(req') => res'.status \notin {401, 403}]_vars

\* user 2, a member of another account only, has been refused a create on this one
C16_Witness ==
    /\ req.handler = "POST /accounts/{id}/transactions"
    /\ IsPlainCaller(req)
    /\ res.status = 403
    /\ ~HasMembership(CallerId(req), req.id)
    /\ \E m \in member : m.uid = CallerId(req) /\ m.account_id # req.id

\* C17: a non-admin's create of a transaction passes authorization only with an
\* EDITOR row on the account; with a VIEWER row only the user can list the
\* account's transactions, but a create is answered 403 and inserts nothing.
C17_EditorNeededToCreate ==
    [][IsPlainCaller(req') =>
        /\ req'.handler = "POST /accounts/{id}/transactions" =>
              IF IsEditor(CallerId(req'), req'.id)
                 THEN res'.status \notin {401, 403}
                 ELSE res'.status = 403 /\ tx' = tx /\ nextId' = nextId
        /\ (/\ req'.handler = "GET /accounts/{id}/transactions"
            /\ HasMembership(CallerId(req'), req'.id))
              => /\ res'.status = 200
                 /\ res'.row[1].data = SortRowsDesc({r \in tx : r.account_id = req'.id})]_vars

\* a user whose row on the account is VIEWER has listed the account's
\* transactions and has now been refused a create
C17_Witness ==
    /\ req.handler = "POST /accounts/{id}/transactions"
    /\ IsPlainCaller(req)
    /\ res.status = 403
    /\ [account_id |-> req.id, uid |-> CallerId(req), type |-> "VIEWER"] \in member
    /\ <<CallerId(req), req.id>> \in hist.admitted

\* C18: a request without a valid identity is answered 401, and an authenticated
\* non-admin's request to an admin-only handler is answered 403, in both cases
\* with no statement sent to the store and no table changed.
C18_GateBeforeStore ==
    [][req'.handler # "none" =>
        /\ ~ValidIdentity(req')
              => /\ res'.status = 401
                 /\ req'.store = 0 /\ req'.rpc = 0 /\ UNCHANGED Tables
        /\ (IsPlainCaller(req') /\ req'.handler \in AdminRoutes)
              => /\ res'.status = 403
                 /\ req'.store = 0 /\ req'.rpc = 0 /\ UNCHANGED Tables]_vars

\* an EDITOR of the account has been refused the delete of one of its transactions
C18_Witness ==
    /\ req.handler = "DELETE /accounts/{id}/transactions/{txId}"
    /\ IsPlainCaller(req)
    /\ IsEditor(CallerId(req), req.id)
    /\ \E r \in tx : r.id = req.txId /\ r.account_id = req.id
    /\ res.status = 403
    /\ req.store = 0

\* C19: the membership check of the transaction routes reads the membership
\* rows as they are when the request is made: a non-admin is refused (403)
\* exactly when the rows hold no (EDITOR, for a create) row for the user now,
\* whatever an earlier request of the user was answered.
C19_AuthorizationNotCached ==
    [][(req'.handler \in TransactionRoutes /\ IsPlainCaller(req')) =>
        (res'.status = 403 <=>
            IF req'.handler = "POST /accounts/{id}/transactions"
               THEN ~IsEditor(CallerId(req'), req'.id)
               ELSE ~HasMembership(CallerId(req'), req'.id))]_vars

\* a user who was admitted to the account earlier is refused the list now
C19_Witness ==
    /\ req.handler = "GET /accounts/{id}/transactions"
    /\ IsPlainCaller(req)
    /\ res.status = 403
    /\ <<CallerId(req), req.id>> \in hist.admitted
    /\ AccountExists(req.id)

\* a user who was refused the account earlier is admitted to create now
C19_WitnessAdded ==
    /\ req.handler = "POST /accounts/{id}/transactions"
    /\ IsPlainCaller(req)
    /\ res.status = 200
    /\ <<CallerId(req), req.id>> \in hist.refused

\* C20: getUserFromRequest gives Unauthorized, and the route answers 401 without
\* running its body, whenever the Authorization header is missing or does not
\* start with "Bearer ", or the identity provider gives an error or no user, or
\* the call to it throws.
C20_IdentityFailsClosed ==
    [][(/\ req'.handler # "none"
        /\ \/ req'.authorization = NULL
           \/ req'.authorization[1].first7 # "Bearer "
           \/ req'.idp.throws
           \/ req'.idp.error
           \/ req'.idp.user = NULL)
       => (/\ getUserFromRequest([authorization |-> req'.authorization,
                                  idp |-> req'.idp]) = Unauthorized
           /\ res'.status = 401
           /\ res'.error = Some("Unauthorized")
           /\ res'.row = NULL
           /\ req'.store = 0 /\ req'.rpc = 0
           /\ UNCHANGED Tables)]_vars

\* a header with the right token under the scheme "bearer " has been refused on
\* an account that exists
C20_Witness ==
    /\ req.authorization = Header("bearer ", "t1")
    /\ req.idp = IdpUser(UserById(1))
    /\ req.handler = "PATCH /accounts/{id}"
    /\ AccountExists(req.id)
    /\ res.status = 401

(***************************************************************************)
(* Membership rows under account updates running at once                   *)
(***************************************************************************)
\* C14: in every reachable state, account updates of one account running at
\* once included, no (account_id, uid) pair has both an EDITOR row and a VIEWER
\* row.
C14_NoUserBothTypes ==
    \A m, n \in member :
        (m.account_id = n.account_id /\ m.uid = n.uid) => m.type = n.type

(***************************************************************************)
(* The list routes                                                         *)
(***************************************************************************)
ItemsOf(listing) == {listing.data[i] : i \in DOMAIN listing.data}

\* C21: the account list given to a non-admin holds only accounts the user has
\* a membership row for (none, with total 0, when the user has no row), an
\* admin's list is drawn from all accounts, and total is the number of accounts
\* the caller may see.
C21_AccountListScoped ==
    [][(req'.handler = "GET /accounts" /\ res'.status = 200) =>
        LET listing == res'.row[1]
            uid     == CallerId(req')
            visible == IF IsAdminCaller(req') THEN account
                       ELSE {a \in account : HasMembership(uid, a.id)}
        IN  /\ ItemsOf(listing) \subseteq visible
            /\ listing.total = Cardinality(visible)
            /\ (IsPlainCaller(req') /\ ~\E m \in member : m.uid = uid)
                  => (listing.data = <<>> /\ listing.total = 0)]_vars

\* a member of one account out of two has been listed that account only
C21_Witness ==
    /\ req.handler = "GET /accounts"
    /\ IsPlainCaller(req)
    /\ res.status = 200
    /\ res.row[1].total = 1
    /\ Len(res.row[1].data) = 1
    /\ HasMembership(CallerId(req), res.row[1].data[1].id)
    /\ Cardinality(account) = 2

(***************************************************************************)
(* The latest-only rule of the incremental handlers                        *)
(***************************************************************************)
\* r is the first row of its account in (transaction_date_time descending, id
\* descending)
IsLatest(rows, r) ==
    \A q \in rows :
        (q.account_id = r.account_id /\ q # r) =>
            \/ q.transaction_date_time < r.transaction_date_time
            \/ (q.transaction_date_time = r.transaction_date_time /\ q.id < r.id)

\* C22: an incremental PATCH or DELETE addressed to a row other than the latest
\* row of the account is answered 409 'Only latest transaction can be modified'
\* and no transaction row changes.
C22_OnlyLatestModified ==
    [][(/\ calls' = calls + 1
        /\ res'.op \in {"PATCH", "DELETE"}
        /\ \E r \in tx : /\ r.account_id = res'.account_id
                         /\ IsLatest(tx, r)
                         /\ r.id # res'.tx_id)
       => (/\ res'.status = 409
           /\ res'.error = Some("Only latest transaction can be modified")
           /\ tx' = tx)]_vars

\* the row of the account with the greatest id, which an update has moved
\* before another row, has been refused
C22_Witness ==
    /\ res.op \in {"PATCH", "DELETE"}
    /\ res.status = 409
    /\ \E r \in tx : /\ r.id = res.tx_id
                     /\ r.account_id = res.account_id
                     /\ \A q \in tx : q.account_id = r.account_id => q.id <= r.id
                     /\ ~IsLatest(tx, r)

(***************************************************************************)
(* Deleting an account                                                     *)
(***************************************************************************)
\* C23: the delete of an account that transactions or membership rows still
\* refer to is answered 409, and the account, its transactions and its
\* membership rows stay as they were.
C23_DeleteWithDependentsRejected ==
    [][(/\ req'.handler = "DELETE /accounts/{id}"
        /\ IsAdminCaller(req')
        /\ AccountExists(req'.id)
        /\ \/ \E r \in tx : r.account_id = req'.id
           \/ \E m \in member : m.account_id = req'.id)
       => (/\ res'.status = 409
           /\ res'.error = Some("Cannot delete account with related records")
           /\ UNCHANGED Tables)]_vars

\* the delete of an account with a transaction and a member has been refused
C23_Witness ==
    /\ req.handler = "DELETE /accounts/{id}"
    /\ res.status = 409
    /\ AccountExists(req.id)
    /\ \E r \in tx : r.account_id = req.id
    /\ \E m \in member : m.account_id = req.id

(***************************************************************************)
(* An account request as one unit of work                                  *)
(***************************************************************************)
\* C24: an account create or update that is answered with an error leaves the
\* account rows and the membership rows as they were before the request.
C24_AccountRequestAtomic ==
    [][(/\ req'.handler \in {"POST /accounts", "PATCH /accounts/{id}"}
        /\ res'.status >= 400)
       => (account' = account /\ member' = member)]_vars

(***************************************************************************)
(* Pagination                                                              *)
(***************************************************************************)
\* the position, counted from 0, of row r among the rows of its account in
\* (transaction_date_time descending, id descending)
PositionDesc(rows, r) ==
    Cardinality({q \in rows :
        /\ q.account_id = r.account_id
        /\ \/ q.transaction_date_time > r.transaction_date_time
           \/ (q.transaction_date_time = r.transaction_date_time /\ q.id > r.id)})

C26_OtherAccountsUntouched ==
    [][res'.op \in {"create", "update", "delete", "recompute"} =>
        /\ {r \in tx : r.account_id # res'.account_id}
              = {r \in tx' : r.account_id # res'.account_id}
        /\ (res'.op \in {"update", "delete"}
              /\ \E r \in tx : r.id = res'.tx_id /\ r.account_id # res'.account_id)
              => \E r \in tx : /\ r.id = res'.tx_id
                               /\ r \in tx'
                               /\ {q \in tx' : q.id = r.id} = {r}]_vars

\* a delete for one account has named a row of the other, whose balance is not
\* its prefix sum, and the row is still there
C26_Witness ==
    /\ res.op = "delete"
    /\ \E r \in tx : /\ r.id = res.tx_id
                     /\ r.account_id # res.account_id
                     /\ r.balance = 999
    /\ \E r \in tx : r.account_id = res.account_id

(***************************************************************************)
(* The fields an update changes                                            *)
(***************************************************************************)
\* C27: after a successful update the target row has the title, description,
\* amount and transaction_date_time of the request where the request gives
\* them (a description of null included) and its stored values where it does
\* not, and the id, account_id and created_by it had.
C27_UpdateChangesOnlyGivenFields ==
    [][(/\ req'.handler = "PATCH /accounts/{id}/transactions/{txId}"
        /\ res'.status = 200)
       => \E r \in tx, n \in tx' :
             LET b == req'.body
             IN  /\ r.id = req'.txId /\ r.account_id = req'.id
                 /\ n.id = r.id
                 /\ \A q \in tx' : q.id = n.id => q = n
                 /\ n.account_id = r.account_id
                 /\ n.created_by = r.created_by
                 /\ n.title = IF b.title = NULL THEN r.title
                                                ELSE Text(b.title[1].len, 0)
                 /\ n.description = IF b.description = NULL THEN r.description
                                                            ELSE b.description[1]
                 /\ n.amount = IF b.amount.t = "number" THEN b.amount.n ELSE r.amount
                 /\ n.transaction_date_time =
                       IF b.transaction_date_time = NULL THEN r.transaction_date_time
                       ELSE b.transaction_date_time[1]
                 /\ res'.row = Some(n)]_vars

\* an update that gives a title and an amount but no description key has kept
\* the description the row was created with
C27_Witness ==
    /\ req.handler = "PATCH /accounts/{id}/transactions/{txId}"
    /\ res.status = 200
    /\ req.body.description = NULL
    /\ req.body.title = Some(Text(120, 1))
    /\ req.body.amount = Num(-30)
    /\ req.body.transaction_date_time = NULL
    /\ res.row[1].description = Some("memo")
    /\ res.row[1].title = Text(120, 0)
    /\ res.row[1].amount = -30

(***************************************************************************)
(* The balance an incremental PATCH stores                                 *)
(***************************************************************************)
\* q comes before n in ascending (transaction_date_time, id)
ComesBefore(q, n) ==
    \/ q.transaction_date_time < n.transaction_date_time
    \/ (q.transaction_date_time = n.transaction_date_time /\ q.id < n.id)

\* the balance of the row of n's account that immediately precedes n in rows,
\* or 0 when none does
PrecedingBalance(rows, n) ==
    LET before == {q \in rows : q.account_id = n.account_id /\ q.id # n.id
                                   /\ ComesBefore(q, n)}
    IN  IF before = {} THEN 0
        ELSE (CHOOSE q \in before : \A o \in before \ {q} : ComesBefore(o, q)).balance

\* C28: an incremental PATCH that changes the amount of the latest transaction
\* stores balance = (balance of the row immediately before it in ascending
\* (transaction_date_time, id) at its effective date, or 0) + the new amount.
C28_PatchBalanceFromPredecessor ==
    [][(/\ calls' = calls + 1
        /\ res'.op = "PATCH"
        /\ res'.status = 200)
       => \A r \in tx, n \in tx' :
             (/\ r.id = res'.tx_id /\ r.account_id = res'.account_id
              /\ n.id = r.id
              /\ n.amount # r.amount)
             => n.balance = PrecedingBalance(tx', n) + n.amount]_vars

(***************************************************************************)
(* The incremental handlers under requests running at once                 *)
(***************************************************************************)
\* C29: when an incremental PATCH or DELETE writes (updates or removes) its
\* target row, that row is the latest row of its account at that moment.
C29_LatestAtTheWrite ==
    [][\A p \in Sessions :
          (/\ sess[p].op \in {"PATCH", "DELETE"}
           /\ sess[p].pc # "idle"
           /\ sess'[p].pc = "idle"
           /\ res'.status = 200)
          => \A r \in tx : (r.id = sess[p].tx_id /\ r.account_id = sess[p].account_id)
                              => IsLatest(tx, r)]_vars

\* C30: when no POST is under way, the balance of every transaction two POSTs
\* run at once have created is its prefix sum in (transaction_date_time, id).
C30_RacingPostsKeepBalances ==
    (\A p \in Sessions : sess[p].pc = "idle") => BalancesArePrefixSums(tx)

====
